---- MODULE Spec2Model ----
(***************************************************************************)
(* A model of amifast's statistics engine: the Stats class of              *)
(* src/amifast/dtypes.py and the cached_property descriptor of             *)
(* src/amifast/utils.py.                                                   *)
(*                                                                         *)
(* Python floats are binary floating-point numbers.  The model keeps that: *)
(* a number is m * 2^e with an integer m, and every arithmetic result is   *)
(* rounded to a significand of Precision bits, ties to even, as IEEE 754   *)
(* does with 53 bits.  The literals of the source (1e3, 1e6, 1e9, 60, 24   *)
(* and their constant products) are held exactly, as binary64 holds them.  *)
(* The exponent is unbounded: overflow, underflow and subnormals are not   *)
(* modelled.  The library functions follow CPython 3.11 (statistics.mean   *)
(* and statistics.stdev round once, from the exact rational result; sum    *)
(* adds left to right).                                                    *)
(***************************************************************************)
EXTENDS Integers, Sequences, FiniteSets, TLC

(***************************************************************************)
(* Bounds of the model.                                                    *)
(***************************************************************************)
\* Width of the significand, in bits (53 in CPython).
Precision == 5
\* Longest list of samples given to the constructor.
MaxLen == 3
\* Most to_* calls that change the unit, per Stats object.
MaxConversions == 2
\* A statistic that is not cached is read only while fewer than this many
\* entries are cached; cached entries can always be read again.
MaxCached == 1
\* Most runs written to the output file.
MaxSaves == 3
\* Longest list of samples of a run that is formatted.
MaxRunLen == 2
\* Most repetitions and most warmups asked of a sampling driver.
MaxRepetitions == 2
MaxWarmups == 1
\* Most decorators applied to one function.
MaxLayers == 3
\* Most samples taken by one call of throughput.
MaxSamples == 12

(***************************************************************************)
(* Numbers.  k is the kind: "float", "nan" (math.nan), "int" (a Python     *)
(* int, e = 0) or "none" (None).  A float is canonical: m is odd, or m = 0 *)
(* and e = 0, so equal numbers are equal records (0.0 and -0.0 are one).   *)
(***************************************************************************)
None == [k |-> "none", m |-> 0, e |-> 0]
NaN == [k |-> "nan", m |-> 0, e |-> 0]
PyInt(n) == [k |-> "int", m |-> n, e |-> 0]

Abs(n) == IF n < 0 THEN -n ELSE n
Sign(n) == IF n < 0 THEN -1 ELSE 1
Min2(a, b) == IF a <= b THEN a ELSE b

RECURSIVE BitLen(_)
BitLen(n) == IF n = 0 THEN 0 ELSE 1 + BitLen(n \div 2)

RECURSIVE Canon(_, _)
Canon(m, e) ==
  IF m = 0 THEN [k |-> "float", m |-> 0, e |-> 0]
  ELSE IF m % 2 = 0 THEN Canon(m \div 2, e + 1)
  ELSE [k |-> "float", m |-> m, e |-> e]

\* s * (q + r / (2 * half)) * 2^e with r < 2 * half, to the nearest
\* integer multiple of 2^e, ties to even.
RoundHalfEven(s, q, r, half, e) ==
  Canon(s * (IF r > half \/ (r = half /\ q % 2 = 1) THEN q + 1 ELSE q), e)

\* s * m * 2^e for m of n bits, with the sh = n - Precision low bits rounded
\* away.
RoundShift(s, m, e, sh) ==
  IF sh <= 0 THEN Canon(s * m, e)
  ELSE RoundHalfEven(s, m \div 2^sh, m % 2^sh, 2^(sh - 1), e + sh)

\* s * m * 2^e (m >= 0) rounded to Precision bits, ties to even.
Round(s, m, e) == RoundShift(s, m, e, BitLen(m) - Precision)

\* float(n) of a Python int, and a float as it is.
Float(x) == IF x.k = "int" THEN Round(Sign(x.m), Abs(x.m), 0) ELSE x

IsZero(x) == x.k \in {"float", "int"} /\ x.m = 0

\* x * y
FMul(x, y) ==
  IF x.k = "nan" \/ y.k = "nan" THEN NaN
  ELSE Round(Sign(x.m) * Sign(y.m), Abs(x.m) * Abs(y.m), x.e + y.e)

\* The bits of q + r/d, one at a time, until q has Precision + 2 bits
\* or the division is exact: <<q, r, n>> with the quotient (q + r/d) / 2^n.
RECURSIVE DivBits(_, _, _, _)
DivBits(q, r, d, n) ==
  IF q >= 2^(Precision + 1) \/ r = 0 THEN <<q, r, n>>
  ELSE LET bit == r >= d - r
       IN DivBits(2 * q + (IF bit THEN 1 ELSE 0),
                  IF bit THEN r - (d - r) ELSE r + r, d, n + 1)

\* x / y for y # 0 (Python raises ZeroDivisionError on y = 0: the callers
\* guard it).
\* s * (b[1] + b[2] / d) / 2^b[3] * 2^e, rounded: a remainder is a sticky
\* bit below the quotient's bits.
RoundBits(s, b, e) ==
  Round(s, 2 * b[1] + (IF b[2] # 0 THEN 1 ELSE 0), e - b[3] - 1)

FDiv(x, y) ==
  IF x.k = "nan" \/ y.k = "nan" THEN NaN
  ELSE RoundBits(Sign(x.m) * Sign(y.m),
                 DivBits(Abs(x.m) \div Abs(y.m), Abs(x.m) % Abs(y.m),
                         Abs(y.m), 0),
                 x.e - y.e)

\* The exponent two numbers are aligned to: zero has none of its own.
AlignExp(x, y) ==
  IF x.m = 0 THEN y.e ELSE IF y.m = 0 THEN x.e ELSE Min2(x.e, y.e)

\* The integer n with x = n * 2^e, for e <= x's exponent (or x = 0).
Scaled(x, e) == IF x.m = 0 THEN 0 ELSE x.m * 2^(x.e - e)

\* x + y and x - y
RoundSigned(n, e) == Round(Sign(n), Abs(n), e)

FAdd(x, y) ==
  IF x.k = "nan" \/ y.k = "nan" THEN NaN
  ELSE LET e == AlignExp(x, y)
       IN RoundSigned(Scaled(x, e) + Scaled(y, e), e)

FSub(x, y) ==
  IF x.k = "nan" \/ y.k = "nan" THEN NaN
  ELSE LET e == AlignExp(x, y)
       IN RoundSigned(Scaled(x, e) - Scaled(y, e), e)

\* x < y, x <= y and x == y; every comparison with NaN is False.
FLt(x, y) ==
  /\ x.k # "nan" /\ y.k # "nan"
  /\ LET e == AlignExp(x, y) IN Scaled(x, e) < Scaled(y, e)

FLe(x, y) ==
  /\ x.k # "nan" /\ y.k # "nan"
  /\ LET e == AlignExp(x, y) IN Scaled(x, e) <= Scaled(y, e)

FEq(x, y) ==
  /\ x.k # "nan" /\ y.k # "nan"
  /\ LET e == AlignExp(x, y) IN Scaled(x, e) = Scaled(y, e)

(***************************************************************************)
(* TimeUnit and the literals of _conversion_fn.  A literal is kept as the  *)
(* exponents of its prime factors, 2^p2 * 3^p3 * 5^p5, so that products of *)
(* literals are exact (24 * 60 * 60 * 1e9 < 2^53 is exact in binary64).    *)
(***************************************************************************)
TimeUnit == {"NS", "US", "MS", "S", "M", "H", "D"}

K24 == [p2 |-> 3, p3 |-> 1, p5 |-> 0]
K60 == [p2 |-> 2, p3 |-> 1, p5 |-> 1]
K1e3 == [p2 |-> 3, p3 |-> 0, p5 |-> 3]
K1e6 == [p2 |-> 6, p3 |-> 0, p5 |-> 6]
K1e9 == [p2 |-> 9, p3 |-> 0, p5 |-> 9]
KOne == [p2 |-> 0, p3 |-> 0, p5 |-> 0]

\* a * b and 1 / a on literals, exactly.
KMul(a, b) == [p2 |-> a.p2 + b.p2, p3 |-> a.p3 + b.p3, p5 |-> a.p5 + b.p5]
KInv(a) == [p2 |-> -a.p2, p3 |-> -a.p3, p5 |-> -a.p5]

\* The float a literal denotes.
KFloat(a) == [k |-> "float", m |-> 3^a.p3 * 5^a.p5, e |-> a.p2]

\* A faulty Mul: the lambda divides where the source multiplies.
MulDivides(c) == [op |-> "div", c |-> c]

Mul(c) == [op |-> "mul", c |-> c]
Div(c) == [op |-> "div", c |-> c]

\* The callable _conversion_fn returns: the arithmetic of its lambda, left to
\* right.  Where no branch returns (unit == target) the method returns None.
NotCallable == [callable |-> FALSE, steps |-> <<>>]
Lambda(steps) == [callable |-> TRUE, steps |-> steps]

conversion_fn(target, from) ==
  CASE from = "NS" ->
         (CASE target = "US" -> Lambda(<<Div(K1e3)>>)
            [] target = "MS" -> Lambda(<<Div(K1e6)>>)
            [] target = "S" -> Lambda(<<Div(K1e9)>>)
            [] target = "M" -> Lambda(<<Div(KMul(K60, K1e9))>>)
            [] target = "H" -> Lambda(<<Div(KMul(KMul(K60, K60), K1e9))>>)
            [] target = "D" ->
                 Lambda(<<Div(KMul(KMul(KMul(K24, K60), K60), K1e9))>>)
            [] OTHER -> NotCallable)
    [] from = "US" ->
         (CASE target = "NS" -> Lambda(<<Mul(K1e3)>>)
            [] target = "MS" -> Lambda(<<Div(K1e3)>>)
            [] target = "S" -> Lambda(<<Div(K1e6)>>)
            [] target = "M" -> Lambda(<<Div(KMul(K60, K1e6))>>)
            [] target = "H" -> Lambda(<<Div(KMul(KMul(K60, K60), K1e6))>>)
            [] target = "D" ->
                 Lambda(<<Div(KMul(KMul(KMul(K24, K60), K60), K1e6))>>)
            [] OTHER -> NotCallable)
    [] from = "MS" ->
         (CASE target = "NS" -> Lambda(<<Mul(K1e6)>>)
            [] target = "US" -> Lambda(<<Mul(K1e3)>>)
            [] target = "S" -> Lambda(<<Div(K1e3)>>)
            [] target = "M" -> Lambda(<<Div(KMul(K60, K1e3))>>)
            [] target = "H" -> Lambda(<<Div(KMul(KMul(K60, K60), K1e3))>>)
            [] target = "D" ->
                 Lambda(<<Div(KMul(KMul(KMul(K24, K60), K60), K1e3))>>)
            [] OTHER -> NotCallable)
    [] from = "S" ->
         (CASE target = "NS" -> Lambda(<<Mul(K1e9)>>)
            [] target = "US" -> Lambda(<<Mul(K1e6)>>)
            [] target = "MS" -> Lambda(<<Mul(K1e3)>>)
            [] target = "M" -> Lambda(<<Div(K60)>>)
            [] target = "H" -> Lambda(<<Div(KMul(K60, K60))>>)
            [] target = "D" -> Lambda(<<Div(KMul(KMul(K24, K60), K60))>>)
            [] OTHER -> NotCallable)
    [] from = "M" ->
         (CASE target = "NS" -> Lambda(<<Mul(K60), Mul(K1e9)>>)
            [] target = "US" -> Lambda(<<Mul(K60), Mul(K1e6)>>)
            [] target = "MS" -> Lambda(<<Mul(K60), Mul(K1e3)>>)
            [] target = "S" -> Lambda(<<Mul(K60)>>)
            [] target = "H" -> Lambda(<<Div(K60)>>)
            [] target = "D" -> Lambda(<<Div(KMul(K24, K60))>>)
            [] OTHER -> NotCallable)
    [] from = "H" ->
         (CASE target = "NS" -> Lambda(<<Mul(K60), Mul(K60), Mul(K1e9)>>)
            [] target = "US" -> Lambda(<<Mul(K60), Mul(K60), Mul(K1e6)>>)
            [] target = "MS" -> Lambda(<<Mul(K60), Mul(K60), Mul(K1e3)>>)
            [] target = "S" -> Lambda(<<Mul(K60), Mul(K60)>>)
            [] target = "M" -> Lambda(<<Mul(K60)>>)
            [] target = "D" -> Lambda(<<Div(K24)>>)
            [] OTHER -> NotCallable)
    [] from = "D" ->
         (CASE target = "NS" ->
                 Lambda(<<Mul(K24), Mul(K60), Mul(K60), Mul(K1e9)>>)
            [] target = "US" ->
                 Lambda(<<Mul(K24), Mul(K60), Mul(K60), Mul(K1e6)>>)
            [] target = "MS" ->
                 Lambda(<<Mul(K24), Mul(K60), Mul(K60), Mul(K1e3)>>)
            [] target = "S" -> Lambda(<<Mul(K24), Mul(K60), Mul(K60)>>)
            [] target = "M" -> Lambda(<<Mul(K24), Mul(K60)>>)
            [] target = "H" -> Lambda(<<Mul(K24)>>)
            [] OTHER -> NotCallable)

\* A faulty Step: a lambda that multiplies where the source divides.
StepMultiplies(x, st) == FMul(Float(x), KFloat(st.c))

\* One step of a lambda on x, and the lambda called on x.
Step(x, st) ==
  IF st.op = "mul" THEN FMul(Float(x), KFloat(st.c))
  ELSE FDiv(Float(x), KFloat(st.c))

RECURSIVE Steps(_, _)
Steps(x, steps) ==
  IF steps = <<>> THEN x ELSE Steps(Step(x, Head(steps)), Tail(steps))

Call(fn, x) == Steps(x, fn.steps)

(***************************************************************************)
(* The state: one Stats object and the last call made on it; the formatter *)
(* made of it and the output file; the environment and the decorated       *)
(* function.                                                               *)
(***************************************************************************)
VARIABLES
  status,       \* "none": not constructed; "live"; "raised": __init__ raised
  given,        \* the list object the caller passed to __init__
  raw_times,    \* self._times
  warmups,      \* self._warmups
  unit,         \* self._unit
  metadata,     \* self._function, _name, _file, _line, _setup, _timestamp,
                \* _function_args and _function_kwargs
  cache,        \* the cached_property entries of self.__dict__
  conversions,  \* to_* calls that changed the unit so far
  last,         \* the last call: what was called, what it returned or raised
  formatted,    \* the value stats_as returned last: a FormattedStats
  file,         \* the output file: whether it exists, and its lines
  saved,        \* the runs written since the file did not exist, in call order
  env,          \* os.environ: the value of ENABLE_BENCHMARKING
  decorated,    \* the decorated function: its layers, innermost first
  timing,       \* the last call of a sampling driver: samples taken, runs
  frame         \* the call of the decorated function: the wrapper to run next

\* The variables of the Stats object and of the last call
svars ==
  <<status, given, raw_times, warmups, unit, metadata, cache, conversions,
    last>>

\* The variables of the formatter and its file, and of the decorators
fvars == <<formatted, file, saved>>
dvars == <<env, decorated, timing, frame>>

vars == <<status, given, raw_times, warmups, unit, metadata, cache,
          conversions, last, formatted, file, saved, env, decorated, timing,
          frame>>

\* The cached_property statistics of Stats.
Properties ==
  {"minimum", "maximum", "mean", "std", "median", "std_outliers",
   "repetitions", "total", "throughput", "throughput_min",
   "percentile_5th", "percentile_25th", "percentile_75th", "percentile_95th"}

Zero == [k |-> "float", m |-> 0, e |-> 0]

(***************************************************************************)
(* Lists of floats, and the builtins and statistics functions used on them *)
(***************************************************************************)
\* A faulty Slice: the warmup runs are kept.
SliceKeepsWarmups(s, w) == s

\* s[w:] of a Python list (indices from 0, a negative w counts from the end)
Slice(s, w) ==
  LET n == Len(s)
      start == IF w < 0 THEN (IF n + w < 0 THEN 0 ELSE n + w)
               ELSE IF w > n THEN n ELSE w
  IN SubSeq(s, start + 1, n)

RECURSIVE Insert(_, _)
Insert(x, s) ==
  IF s = <<>> THEN <<x>>
  ELSE IF FLt(x, Head(s)) THEN <<x>> \o s
  ELSE <<Head(s)>> \o Insert(x, Tail(s))

\* A faulty sorted: the list as it is.
sorted_keeps_order(ts) == ts

\* sorted(ts): stable, ascending
RECURSIVE sorted(_)
sorted(ts) ==
  IF ts = <<>> THEN <<>>
  ELSE Insert(ts[Len(ts)], sorted(SubSeq(ts, 1, Len(ts) - 1)))

\* min(ts) and max(ts) of a non-empty list: the first least, first greatest
RECURSIVE PyMin(_)
PyMin(ts) ==
  IF Len(ts) = 1 THEN ts[1]
  ELSE LET r == PyMin(SubSeq(ts, 1, Len(ts) - 1))
       IN IF FLt(ts[Len(ts)], r) THEN ts[Len(ts)] ELSE r

RECURSIVE PyMax(_)
PyMax(ts) ==
  IF Len(ts) = 1 THEN ts[1]
  ELSE LET r == PyMax(SubSeq(ts, 1, Len(ts) - 1))
       IN IF FLt(r, ts[Len(ts)]) THEN ts[Len(ts)] ELSE r

\* sum(ts): 0 + ts[0] + ts[1] + ..., each addition rounded
RECURSIVE PySum(_)
PySum(ts) ==
  IF ts = <<>> THEN PyInt(0)
  ELSE LET r == PySum(SubSeq(ts, 1, Len(ts) - 1))
       IN IF r.k = "int" THEN ts[Len(ts)] ELSE FAdd(r, ts[Len(ts)])

\* The least exponent of the non-zero entries (0 if all are zero).
RECURSIVE MinExp(_)
MinExp(ts) ==
  IF ts = <<>> THEN 0
  ELSE LET x == Head(ts)
           r == MinExp(Tail(ts))
           rest == \A i \in 1..Len(Tail(ts)) : Tail(ts)[i].m = 0
       IN IF x.m = 0 THEN r ELSE IF rest THEN x.e ELSE Min2(x.e, r)

\* The exact sums of x / 2^e and of (x / 2^e)^2 over ts.
RECURSIVE SumScaled(_, _)
SumScaled(ts, e) ==
  IF ts = <<>> THEN 0 ELSE Scaled(Head(ts), e) + SumScaled(Tail(ts), e)

RECURSIVE SumSquares(_, _)
SumSquares(ts, e) ==
  IF ts = <<>> THEN 0
  ELSE Scaled(Head(ts), e) * Scaled(Head(ts), e) + SumSquares(Tail(ts), e)

\* statistics.mean(ts): the exact sum over n, rounded once
statistics_mean(ts) ==
  LET e == MinExp(ts)
      s == SumScaled(ts, e)
  IN FDiv([k |-> "float", m |-> s, e |-> e], PyInt(Len(ts)))

\* statistics.median(ts)
statistics_median(ts) ==
  LET data == sorted(ts)
      n == Len(data)
      i == n \div 2
  IN IF n % 2 = 1 THEN data[i + 1]
     ELSE FDiv(FAdd(data[i], data[i + 1]), PyInt(2))

\* The largest q with q * q <= v, found bit by bit from bit b down.
RECURSIVE SqrtBits(_, _, _)
SqrtBits(v, q, b) ==
  IF b = 0 THEN q
  ELSE IF (q + b) * (q + b) <= v THEN SqrtBits(v, q + b, b \div 2)
  ELSE SqrtBits(v, q, b \div 2)

\* The least j with num * 4^j \div den >= 4^(Precision + 1).
RECURSIVE SqrtScale(_, _, _)
SqrtScale(num, den, j) ==
  IF (num * 4^j) \div den >= 4^(Precision + 1) THEN j
  ELSE SqrtScale(num, den, j + 1)

\* sqrt(num / den) * 2^e, rounded once (num > 0)
SqrtRounded(num, den, e, j, q) ==
  Round(1, 2 * q + (IF q * q * den # num * 4^j THEN 1 ELSE 0), e - j - 1)

SqrtScaled(num, den, e, j) ==
  SqrtRounded(num, den, e, j, SqrtBits((num * 4^j) \div den, 0, 2^14))

SqrtOfFrac(num, den, e) == SqrtScaled(num, den, e, SqrtScale(num, den, 0))

\* statistics.stdev(ts) for n >= 2: the square root of the exact sample
\* variance (n * sum(x^2) - sum(x)^2) / (n * (n - 1)), rounded once.  With
\* fewer than two points it raises StatisticsError (see StdOf).
statistics_stdev(ts) ==
  LET e == MinExp(ts)
      n == Len(ts)
      num == n * SumSquares(ts, e) - SumScaled(ts, e) * SumScaled(ts, e)
  IN IF num = 0 THEN Zero ELSE SqrtOfFrac(num, n * (n - 1), e)

\* math.floor(x) and math.ceil(x) as Python ints
Floor(x) == IF x.e >= 0 THEN x.m * 2^x.e ELSE x.m \div 2^(-x.e)
Ceil(x) == -Floor([x EXCEPT !.m = -x.m])

(***************************************************************************)
(* Stats: the properties                                                   *)
(***************************************************************************)
\* Stats.times: raw_times without the warmup runs
times == Slice(raw_times, warmups)

\* What a call gives: a value, or an exception raised (exc # ""); c is the
\* cache afterwards and ran the number of property getters that ran.
Return(c, v, ran) == [c |-> c, v |-> v, exc |-> "", ran |-> ran]
Raise(c, exc, ran) == [c |-> c, v |-> None, exc |-> exc, ran |-> ran]

\* x / y of Python
Divide(c, x, y, ran) ==
  IF IsZero(y) THEN Raise(c, "ZeroDivisionError", ran)
  ELSE Return(c, FDiv(Float(x), Float(y)), ran)

\* The literals 0.05, 0.25, 0.75 and 0.95, rounded as a float literal is.
P05 == FDiv(PyInt(5), PyInt(100))
P25 == FDiv(PyInt(25), PyInt(100))
P75 == FDiv(PyInt(75), PyInt(100))
P95 == FDiv(PyInt(95), PyInt(100))
One == [k |-> "float", m |-> 1, e |-> 0]

\* obj.__dict__[name] = value
Put(c, name, value) ==
  [x \in DOMAIN c \cup {name} |-> IF x = name THEN value ELSE c[x]]

\* A faulty __get__: the entry of obj.__dict__ is never looked up.
cached_property_recomputes(c, name, r) ==
  IF r.exc # "" THEN Raise(r.c, r.exc, r.ran + 1)
  ELSE Return(Put(r.c, name, r.v), r.v, r.ran + 1)

\* cached_property.__get__(obj) of property name: the entry of obj.__dict__
\* if there is one, else the getter's result r (the getter runs only then),
\* stored in obj.__dict__ (nothing is stored when the getter raises)
cached_property(c, name, r) ==
  IF name \in DOMAIN c THEN Return(c, c[name], 0)
  ELSE IF r.exc # "" THEN Raise(r.c, r.exc, r.ran + 1)
  ELSE Return(Put(r.c, name, r.v), r.v, r.ran + 1)

\* A faulty interpolation: the two weights are exchanged.
InterpolateSwapsWeights(c, ts, k) ==
  LET f == Floor(k)
      cl == Ceil(k)
  IN IF f # cl
     THEN Return(c, FAdd(FMul(ts[f + 1], FSub(k, Float(PyInt(f)))),
                         FMul(ts[cl + 1], FSub(Float(PyInt(cl)), k))), 0)
     ELSE Return(c, ts[Floor(k) + 1], 0)

\* The rest of _percentile, from the sorted times ts and k = (len - 1) * p
Interpolate(c, ts, k) ==
  LET f == Floor(k)
      cl == Ceil(k)
  IN IF f # cl
     THEN Return(c, FAdd(FMul(ts[f + 1], FSub(Float(PyInt(cl)), k)),
                         FMul(ts[cl + 1], FSub(k, Float(PyInt(f))))), 0)
     ELSE Return(c, ts[Floor(k) + 1], 0)

\* Stats._percentile(p).  On an empty list every index is out of range.
percentile(c, p) ==
  IF p.k \notin {"float", "nan"} \/ ~(FLe(Zero, p) /\ FLe(p, One))
  THEN Raise(c, "ValueError", 0)
  ELSE IF times = <<>> THEN Raise(c, "IndexError", 0)
  ELSE Interpolate(c, sorted(times), FMul(Float(PyInt(Len(times) - 1)), p))

\* The getters of the cached properties.  On an empty list min and max raise
\* ValueError, statistics.mean and statistics.median raise StatisticsError.
minimum(c) ==
  IF times = <<>> THEN Raise(c, "ValueError", 0)
  ELSE Return(c, PyMin(times), 0)

maximum(c) ==
  IF times = <<>> THEN Raise(c, "ValueError", 0)
  ELSE Return(c, PyMax(times), 0)

mean(c) ==
  IF times = <<>> THEN Raise(c, "StatisticsError", 0)
  ELSE Return(c, statistics_mean(times), 0)

repetitions(c) == Return(c, PyInt(Len(times)), 0)

\* A faulty std: the guard is repetitions < 1.
StdOfGuardsOne(r) ==
  IF r.v.m < 1 THEN Return(r.c, Zero, r.ran)
  ELSE IF Len(times) < 2 THEN Raise(r.c, "StatisticsError", r.ran)
  ELSE Return(r.c, statistics_stdev(times), r.ran)

\* std, after its read r of self.repetitions
StdOf(r) ==
  IF r.v.m < 2 THEN Return(r.c, Zero, r.ran)
  ELSE IF Len(times) < 2 THEN Raise(r.c, "StatisticsError", r.ran)
  ELSE Return(r.c, statistics_stdev(times), r.ran)

std(c) == StdOf(cached_property(c, "repetitions", repetitions(c)))

median(c) ==
  IF times = <<>> THEN Raise(c, "StatisticsError", 0)
  ELSE Return(c, statistics_median(times), 0)

\* The loop of std_outliers
CountOutliers(quartile0, quartile4) ==
  Cardinality({i \in 1..Len(times) :
                 FLt(times[i], quartile0) \/ FLt(quartile4, times[i])})

\* std_outliers, after its reads s of self.std and a of self.mean
OutliersOf(s, a) ==
  IF a.exc # "" THEN Raise(a.c, a.exc, s.ran + a.ran)
  ELSE Return(a.c, PyInt(CountOutliers(FSub(a.v, s.v), FAdd(a.v, s.v))),
              s.ran + a.ran)

OutliersAfterStd(s) == OutliersOf(s, cached_property(s.c, "mean", mean(s.c)))

std_outliers(c) == OutliersAfterStd(cached_property(c, "std", std(c)))

total(c) == Return(c, PySum(times), 0)

\* self.repetitions / self.total, after the reads t of self.total and r of
\* self.repetitions
ThroughputOf(t, r) == Divide(r.c, r.v, t.v, t.ran + r.ran)

\* A faulty throughput: no guard on total == 0.0.
ThroughputUnguarded(t) ==
  ThroughputOf(t, cached_property(t.c, "repetitions", repetitions(t.c)))

\* throughput, after its read t of self.total
ThroughputAfterTotal(t) ==
  IF IsZero(t.v) THEN Return(t.c, NaN, t.ran)
  ELSE ThroughputOf(t, cached_property(t.c, "repetitions", repetitions(t.c)))

throughput(c) == ThroughputAfterTotal(cached_property(c, "total", total(c)))

\* throughput_min, after its read r of self.minimum
ThroughputMinOf(r) ==
  IF r.exc # "" THEN r
  ELSE IF IsZero(r.v) THEN Return(r.c, NaN, r.ran)
  ELSE Divide(r.c, One, r.v, r.ran)

throughput_min(c) == ThroughputMinOf(cached_property(c, "minimum", minimum(c)))

percentile_5th(c) == percentile(c, P05)
percentile_25th(c) == percentile(c, P25)
percentile_75th(c) == percentile(c, P75)
percentile_95th(c) == percentile(c, P95)

\* self.fget(obj) of the descriptor of property name
Fget(c, name) ==
  CASE name = "minimum" -> minimum(c)
    [] name = "maximum" -> maximum(c)
    [] name = "mean" -> mean(c)
    [] name = "std" -> std(c)
    [] name = "median" -> median(c)
    [] name = "std_outliers" -> std_outliers(c)
    [] name = "repetitions" -> repetitions(c)
    [] name = "total" -> total(c)
    [] name = "throughput" -> throughput(c)
    [] name = "throughput_min" -> throughput_min(c)
    [] name = "percentile_5th" -> percentile_5th(c)
    [] name = "percentile_25th" -> percentile_25th(c)
    [] name = "percentile_75th" -> percentile_75th(c)
    [] name = "percentile_95th" -> percentile_95th(c)

\* A read of obj.<name>
Get(c, name) == cached_property(c, name, Fget(c, name))

\* A faulty _invalidate_cache: "minimum" is left in self.__dict__.
invalidate_cache_keeps_minimum(c) ==
  LET deleted == {"maximum", "mean", "std", "median", "std_outliers",
                  "repetitions", "total", "throughput", "throughput_min",
                  "percentile_5th", "percentile_25th", "percentile_75th",
                  "percentile_95th"}
  IN [x \in DOMAIN c \ deleted |-> c[x]]

\* Stats._invalidate_cache: the names it deletes from self.__dict__
invalidate_cache(c) ==
  LET deleted == {"minimum", "maximum", "mean", "std", "median",
                  "std_outliers", "repetitions", "total", "throughput",
                  "throughput_min", "percentile_5th", "percentile_25th",
                  "percentile_75th", "percentile_95th"}
  IN [x \in DOMAIN c \ deleted |-> c[x]]

\* A faulty conversion: only the effective times are converted.
MapEffective(fn, ts) ==
  [i \in 1..Len(ts) |-> IF i <= warmups THEN ts[i] ELSE Call(fn, ts[i])]

\* [fn(t) for t in ts]
Map(fn, ts) == [i \in 1..Len(ts) |-> Call(fn, ts[i])]

(***************************************************************************)
(* Inputs                                                                  *)
(***************************************************************************)
\* Sample times, in seconds: 0.0, 1.5 and 0.71875
SampleValues ==
  {Zero, [k |-> "float", m |-> 3, e |-> -1],
   [k |-> "float", m |-> 23, e |-> -5]}

Lists == UNION {[1..n -> SampleValues] : n \in 0..MaxLen}

WarmupValues == -1..MaxLen

\* The record of a call: the method (op), its string argument (arg: the
\* property read, the target unit), its integer argument (int: warmups), its
\* number argument (p: of _percentile), the unit before the call (from), and
\* what it returned (ret) or raised, with the number of property getters
\* that ran in it; for validate, the warnings returned and the number of
\* lines printed to the file.
NoCall ==
  [op |-> "", arg |-> "", int |-> 0, p |-> None, from |-> "", ret |-> None,
   ran |-> 0, raised |-> "", warnings |-> {}, printed |-> 0,
   style |-> [k |-> "", v |-> ""], append |-> FALSE, enabled |-> FALSE]

\* No formatter (the value None), the file that does not exist, and the
\* environment variable that is not set.
NoFormatter == [kind |-> "None", row |-> <<>>]
NoFile == [exists |-> FALSE, lines |-> <<>>]
Unset == "unset"

\* A function given to Stats or to a sampling driver: the object (id),
\* whether it is callable, and its __name__, source file and first line.  f
\* is a function of the caller's module, the snippet is a string of code,
\* and the third is the lambda of bench._wrap_function_if_callable.
UserFunction ==
  [id |-> "f", callable |-> TRUE, name |-> "f", file |-> "user.py",
   line |-> "1"]
Snippet ==
  [id |-> "'pass'", callable |-> FALSE, name |-> "", file |-> "",
   line |-> ""]
WrappedCall ==
  [id |-> "lambda: fn(*args, **kwargs)", callable |-> TRUE,
   name |-> "<lambda>", file |-> "bench.py", line |-> "29"]

NoFunction ==
  [id |-> "", callable |-> FALSE, name |-> "", file |-> "", line |-> ""]

\* The positional and the keyword arguments given with a function
ArgValues == {"()", "(1,)"}
KwargValues == {"{}", "{'c': 2}"}

\* bool(x) of a tuple, a dict or None
Truthy(x) == x \notin {"()", "{}", "None"}

\* The metadata of a Stats that is not constructed
NoMetadata ==
  [function |-> "", name |-> "", file |-> "", line |-> "", setup |-> "",
   timestamp |-> "", args |-> "", kwargs |-> ""]

\* The metadata Stats.__init__ stores for the function, fn_args and
\* fn_kwargs it is given: the name, file and line of a callable, None for a
\* string
StatsMetadata(function, fn_args, fn_kwargs) ==
  [function |-> function.id,
   name |-> IF function.callable THEN function.name ELSE "None",
   file |-> IF function.callable THEN function.file ELSE "None",
   line |-> IF function.callable THEN function.line ELSE "None",
   setup |-> "pass", timestamp |-> "time.time()", args |-> fn_args,
   kwargs |-> fn_kwargs]

\* The record of a call of a sampling driver: the function of bench called
\* (op), from the module or from its decorator (form), its arguments, the
\* function and the arguments given for it (fn, fn_args, fn_kwargs), the
\* number of timer.timeit calls (samples) and of runs of the benchmarked
\* function (runs); for the loop of throughput, where the call is (pc: ""
\* not called, "loop" at the while test, "done" returned) and its local
\* variables times, total_time, repetitions (count) and warmup_count
NoTiming ==
  [op |-> "", form |-> "", repetitions |-> 0, warmups |-> 0, samples |-> 0,
   runs |-> 0, pc |-> "", times |-> <<>>, total_time |-> Zero, count |-> 0,
   warmup_count |-> 0, fn |-> NoFunction, fn_args |-> "", fn_kwargs |-> ""]

\* The call of the decorated function: the index of the wrapper that runs
\* next (at: 0 before the call, one more than the number of decorators when
\* the call is over), the class of the value returned so far, the exception
\* raised and the statement that raised it (by), and the numbers of runs of
\* the original function, of isinstance tests, of format.stats_as calls and
\* of writes to the file
NoFrame ==
  [at |-> 0, value |-> "", raised |-> "", by |-> "", runs |-> 0,
   checks |-> 0, formats |-> 0, writes |-> 0]

(***************************************************************************)
(* Operations                                                              *)
(***************************************************************************)
Init ==
  /\ status = "none"
  /\ given = <<>>
  /\ raw_times = <<>>
  /\ warmups = 0
  /\ unit = ""
  /\ metadata = NoMetadata
  /\ cache = <<>>
  /\ conversions = 0
  /\ last = NoCall
  /\ formatted = NoFormatter
  /\ file = NoFile
  /\ saved = <<>>
  /\ env = Unset
  /\ decorated = <<>>
  /\ timing = NoTiming
  /\ frame = NoFrame

\* A faulty __init__: the test is warmups > len(times).
StatsInitAllowsAllWarmups(ts, w) ==
  /\ status = "none"
  /\ given' = ts
  /\ IF w > Len(ts)
     THEN /\ status' = "raised"
          /\ last' = [NoCall EXCEPT !.op = "__init__", !.int = w,
                                    !.raised = "ValueError"]
          /\ UNCHANGED <<raw_times, warmups, unit>>
     ELSE /\ status' = "live"
          /\ raw_times' = ts
          /\ warmups' = w
          /\ unit' = "S"
          /\ last' = [NoCall EXCEPT !.op = "__init__", !.int = w]
  /\ UNCHANGED <<cache, conversions>>

\* Stats.__init__(times, function, warmups)
StatsInit(ts, w) ==
  /\ status = "none"
  /\ given' = ts
  /\ IF w >= Len(ts)
     THEN /\ status' = "raised"
          /\ last' = [NoCall EXCEPT !.op = "__init__", !.int = w,
                                    !.raised = "ValueError"]
          /\ UNCHANGED <<raw_times, warmups, unit>>
     ELSE /\ status' = "live"
          /\ raw_times' = ts
          /\ warmups' = w
          /\ unit' = "S"
          /\ last' = [NoCall EXCEPT !.op = "__init__", !.int = w]
  /\ UNCHANGED <<cache, conversions>>

\* The rest of Stats.__init__(times, function, warmups, fn_args=fn_args,
\* fn_kwargs=fn_kwargs): the metadata, stored when the call does not raise
StatsInitMetadata(function, fn_args, fn_kwargs) ==
  metadata' = IF status' = "live"
              THEN StatsMetadata(function, fn_args, fn_kwargs)
              ELSE metadata

Construct ==
  /\ \E ts \in Lists, w \in WarmupValues : StatsInit(ts, w)
  /\ StatsInitMetadata(UserFunction, "None", "None")
  /\ UNCHANGED <<fvars, dvars>>

\* A read of one of the cached properties of the object, with result r
ReadResult(name, r) ==
  /\ cache' = r.c
  /\ last' = [NoCall EXCEPT !.op = "get", !.arg = name, !.from = unit,
                            !.ret = r.v, !.ran = r.ran, !.raised = r.exc]

Read(name) ==
  /\ status = "live"
  /\ name \in DOMAIN cache \/ Cardinality(DOMAIN cache) < MaxCached
  /\ ReadResult(name, Get(cache, name))
  /\ UNCHANGED <<status, given, raw_times, warmups, unit, metadata,
               conversions>>

ReadProperty ==
  /\ \E name \in Properties : Read(name)
  /\ UNCHANGED <<fvars, dvars>>

\* A faulty to_*: the cache is invalidated before the unit is looked at.
ConvertInvalidatesFirst(target) ==
  /\ status = "live"
  /\ cache' = invalidate_cache(cache)
  /\ IF unit # target
     THEN /\ conversions < MaxConversions
          /\ raw_times' = Map(conversion_fn(target, unit), raw_times)
          /\ unit' = target
          /\ conversions' = conversions + 1
     ELSE UNCHANGED <<raw_times, unit, conversions>>
  /\ last' = [NoCall EXCEPT !.op = "to", !.arg = target, !.from = unit]
  /\ UNCHANGED <<status, given, warmups, metadata>>

\* A faulty assignment, self._times[:] = [...]: the list the caller passed
\* is the list that is written.
CallerListInPlace(old, new) == new

\* self._times = [...] binds the attribute to a new list: the list object
\* the caller passed (old), until then the one self._times named, is left
\* as it was.
CallerList(old, new) == old

\* The body shared by the seven to_* methods
Convert(target) ==
  /\ status = "live"
  /\ IF unit # target
     THEN /\ conversions < MaxConversions
          /\ cache' = invalidate_cache(cache)
          /\ raw_times' = Map(conversion_fn(target, unit), raw_times)
          /\ given' = CallerList(given, raw_times')
          /\ unit' = target
          /\ conversions' = conversions + 1
     ELSE UNCHANGED <<cache, raw_times, given, unit, conversions>>
  /\ last' = [NoCall EXCEPT !.op = "to", !.arg = target, !.from = unit]
  /\ UNCHANGED <<status, warmups, metadata>>

to_nanoseconds == Convert("NS") /\ UNCHANGED <<fvars, dvars>>
to_microseconds == Convert("US") /\ UNCHANGED <<fvars, dvars>>
to_milliseconds == Convert("MS") /\ UNCHANGED <<fvars, dvars>>
to_seconds == Convert("S") /\ UNCHANGED <<fvars, dvars>>
to_minutes == Convert("M") /\ UNCHANGED <<fvars, dvars>>
to_hours == Convert("H") /\ UNCHANGED <<fvars, dvars>>
to_days == Convert("D") /\ UNCHANGED <<fvars, dvars>>

Next ==
  \/ Construct
  \/ ReadProperty
  \/ to_nanoseconds
  \/ to_microseconds
  \/ to_milliseconds
  \/ to_seconds
  \/ to_minutes
  \/ to_hours
  \/ to_days

Spec == Init /\ [][Next]_vars

(***************************************************************************)
(* Percentiles and validate: _percentile called with any argument, the     *)
(* plain properties percentile_0th, percentile_50th and percentile_100th,  *)
(* and validate                                                            *)
(***************************************************************************)
\* The @property getters: reads of minimum, median and maximum
percentile_0th(c) == cached_property(c, "minimum", minimum(c))
percentile_50th(c) == cached_property(c, "median", median(c))
percentile_100th(c) == cached_property(c, "maximum", maximum(c))

\* The plain properties and the cached property each one reads
PlainProperties == {"percentile_0th", "percentile_50th", "percentile_100th"}

ReadBy(name) ==
  CASE name = "percentile_0th" -> "minimum"
    [] name = "percentile_50th" -> "median"
    [] name = "percentile_100th" -> "maximum"

PlainGet(c, name) ==
  CASE name = "percentile_0th" -> percentile_0th(c)
    [] name = "percentile_50th" -> percentile_50th(c)
    [] name = "percentile_100th" -> percentile_100th(c)

\* A read of one of the plain properties
ReadPlain(name) ==
  /\ status = "live"
  /\ ReadBy(name) \in DOMAIN cache \/ Cardinality(DOMAIN cache) < MaxCached
  /\ ReadResult(name, PlainGet(cache, name))
  /\ UNCHANGED <<status, given, raw_times, warmups, unit, metadata,
               conversions>>

ReadPlainProperty ==
  /\ \E name \in PlainProperties : ReadPlain(name)
  /\ UNCHANGED <<fvars, dvars>>

\* Arguments of _percentile: the floats 0.0, 0.25, 0.5, 0.75 and 1.0; the
\* floats -0.5 and 1.5 and math.nan; the int 1; and None (for an argument
\* that is no number).
Half == [k |-> "float", m |-> 1, e |-> -1]

PValues ==
  {Zero, P25, Half, P75, One,
   [k |-> "float", m |-> -1, e |-> -1], [k |-> "float", m |-> 3, e |-> -1],
   NaN, PyInt(1), None}

\* A call of a method with number argument p and result r
CallResult(op, p, r) ==
  /\ cache' = r.c
  /\ last' = [NoCall EXCEPT !.op = op, !.p = p, !.from = unit, !.ret = r.v,
                            !.ran = r.ran, !.raised = r.exc]

\* stats._percentile(p)
PercentileCall(p) ==
  /\ status = "live"
  /\ CallResult("_percentile", p, percentile(cache, p))
  /\ UNCHANGED <<status, given, raw_times, warmups, unit, metadata,
               conversions>>

CallPercentile ==
  /\ \E p \in PValues : PercentileCall(p)
  /\ UNCHANGED <<fvars, dvars>>

\* r(): a call of the value a read r gave.  The statistics are numbers, and
\* a number is not callable: TypeError.
CallValue(r) ==
  IF r.exc # "" THEN r ELSE Raise(r.c, "TypeError", r.ran)

\* Stats.validate(file).  With two or more effective times the first
\* statement to run is std = self.std(), otherwise it is the argument
\* self.minimum() of the converted minimum: each reads the property and calls
\* the float it gives, so no statement after it runs; nothing is appended to
\* warnings and nothing is printed.
validate(c) ==
  IF Len(times) >= 2
  THEN CallValue(cached_property(c, "std", std(c)))
  ELSE CallValue(cached_property(c, "minimum", minimum(c)))

\* The file argument of validate: a file object or None
Files == {"stdout", "None"}

ValidateResult(f, r) ==
  /\ cache' = r.c
  /\ last' = [NoCall EXCEPT !.op = "validate", !.arg = f, !.from = unit,
                            !.ran = r.ran, !.raised = r.exc]

Validate(f) ==
  /\ status = "live"
  /\ ValidateResult(f, validate(cache))
  /\ UNCHANGED <<status, given, raw_times, warmups, unit, metadata,
               conversions>>

CallValidate ==
  /\ \E f \in Files : Validate(f)
  /\ UNCHANGED <<fvars, dvars>>

NextPercentile ==
  \/ Construct
  \/ ReadProperty
  \/ ReadPlainProperty
  \/ CallPercentile
  \/ CallValidate
  \/ to_milliseconds

SpecPercentile == Init /\ [][NextPercentile]_vars

(***************************************************************************)
(* format: Format.to_enum, the formatters, their save and stats_as         *)
(***************************************************************************)
\* A style token: a str, a member of Format, or None
Str(v) == [k |-> "str", v |-> v]
Member(n) == [k |-> "Format", v |-> n]
NoneToken == [k |-> "NoneType", v |-> "None"]

\* class Format.  Iterating it gives the four members: markdown, csv, json
\* and plot are aliases, other names of the same four objects.
Format == <<"MARKDOWN", "CSV", "JSON", "PLOT">>

\* f.value
FormatValue(f) ==
  CASE f = "MARKDOWN" -> "markdown"
    [] f = "CSV" -> "csv"
    [] f = "JSON" -> "json"
    [] f = "PLOT" -> "plot"

\* Format[name]: by the name of a member or of an alias
FormatByName(name) ==
  CASE name \in {"MARKDOWN", "markdown"} -> "MARKDOWN"
    [] name \in {"CSV", "csv"} -> "CSV"
    [] name \in {"JSON", "json"} -> "JSON"
    [] name \in {"PLOT", "plot"} -> "PLOT"

\* Format.to_enum(str_or_format)
to_enum(t) ==
  IF t.k = "Format"
  THEN [exc |-> "", v |-> t.v]
  ELSE IF \E i \in DOMAIN Format : Str(FormatValue(Format[i])) = t
       THEN [exc |-> "", v |-> FormatByName(t.v)]
       ELSE [exc |-> "ValueError", v |-> ""]

\* _STATS_MAPPING.values(): the properties a formatter reads, in order
STATS_MAPPING ==
  <<"repetitions", "total", "mean", "std", "std_outliers", "throughput",
    "throughput_min", "minimum", "percentile_5th", "percentile_25th",
    "median", "percentile_75th", "percentile_95th", "maximum">>

\* [getattr(stats, v) for v in _STATS_MAPPING.values()] from the i-th on:
\* the cache after the reads, and the exception of the first read that raised
RECURSIVE DataRow(_, _)
DataRowFrom(r, i) ==
  IF r.exc # "" THEN [exc |-> r.exc, c |-> r.c] ELSE DataRow(r.c, i + 1)

DataRow(c, i) ==
  IF i > Len(STATS_MAPPING)
  THEN [exc |-> "", c |-> c]
  ELSE DataRowFrom(Get(c, STATS_MAPPING[i]), i)

\* The row of a formatter: of the metadata the warmups and the unit, and the
\* fourteen statistics
Row(c) ==
  [warmups |-> warmups, unit |-> unit,
   data |-> [i \in DOMAIN STATS_MAPPING |-> c[STATS_MAPPING[i]]]]

\* The result of a constructor or of stats_as: the exception raised or the
\* value returned, and the cache of the Stats after it
Built(kind, r) ==
  IF r.exc # ""
  THEN [exc |-> r.exc, c |-> r.c, f |-> NoFormatter]
  ELSE [exc |-> "", c |-> r.c, f |-> [kind |-> kind, row |-> <<Row(r.c)>>]]

\* A faulty FormattedStats.__init__: any value is taken.
FormattedStatsInitTakesAll(isStats) == ""

\* FormattedStats.__init__(stats)
FormattedStatsInit(isStats) == IF ~isStats THEN "TypeError" ELSE ""

\* CSV(stats), Markdown(stats), JSON(stats): the base class constructor, then
\* the metadata row and the data row
NewFormatter(kind, isStats, c) ==
  IF FormattedStatsInit(isStats) # ""
  THEN [exc |-> FormattedStatsInit(isStats), c |-> c, f |-> NoFormatter]
  ELSE Built(kind, DataRow(c, 1))

\* The module imports matplotlib.pyplot as plt, or sets plt to None; with
\* None the definition of Plot.resource (-> plt.Figure) raises and the
\* module is not imported.  So plt is the module wherever format runs.
plt == "matplotlib.pyplot"

\* Plot(stats)
NewPlot(isStats, c) ==
  IF plt = "None"
  THEN [exc |-> "ImportError", c |-> c, f |-> NoFormatter]
  ELSE IF FormattedStatsInit(isStats) # ""
       THEN [exc |-> FormattedStatsInit(isStats), c |-> c, f |-> NoFormatter]
       ELSE [exc |-> "", c |-> c, f |-> [kind |-> "Plot", row |-> <<>>]]

stats_as_csv(isStats, c) == NewFormatter("CSV", isStats, c)
stats_as_markdown(isStats, c) == NewFormatter("Markdown", isStats, c)
stats_as_json(isStats, c) == NewFormatter("JSON", isStats, c)
stats_as_plot(isStats, c) ==
  IF plt # "None"
  THEN NewPlot(isStats, c)
  ELSE [exc |-> "ImportError", c |-> c, f |-> NoFormatter]

\* The if/elif chain of stats_as on the member style; None without a branch
StatsAsMember(isStats, style, c) ==
  IF style = "CSV" THEN stats_as_csv(isStats, c)
  ELSE IF style = "MARKDOWN" THEN stats_as_markdown(isStats, c)
  ELSE IF style = "JSON" THEN stats_as_json(isStats, c)
  ELSE IF style = "PLOT" THEN stats_as_plot(isStats, c)
  ELSE [exc |-> "", c |-> c, f |-> NoFormatter]

\* format.stats_as(stats, style)
stats_as(isStats, t, c) ==
  IF to_enum(t).exc # ""
  THEN [exc |-> to_enum(t).exc, c |-> c, f |-> NoFormatter]
  ELSE StatsAsMember(isStats, to_enum(t).v, c)

\* The lines of a file: a header line, the separator line of Markdown, a
\* data row, or a JSON document with its runs
Line(t, kind, rows) == [t |-> t, kind |-> kind, rows |-> rows]

Header(kind) ==
  IF kind = "Markdown"
  THEN <<Line("header", kind, <<>>), Line("separator", kind, <<>>)>>
  ELSE <<Line("header", kind, <<>>)>>

\* CSV.resource(append) and Markdown.resource(append)
resource(f, append) ==
  (IF ~append THEN Header(f.kind) ELSE <<>>)
    \o <<Line("row", f.kind, f.row)>>

\* open(file, mode) and f.write(text)
Open(fl, mode) ==
  IF mode = "w"
  THEN [exists |-> TRUE, lines |-> <<>>]
  ELSE [exists |-> TRUE, lines |-> fl.lines]

Write(fl, text) == [fl EXCEPT !.lines = @ \o text]

\* A faulty save: append=False writes over the file that exists.
TextSaveOverwrites(fl, f, append) ==
  [exc |-> "",
   file |-> Write(Open(fl, IF append /\ fl.exists THEN "a" ELSE "w"),
                  resource(f, append /\ fl.exists))]

\* A faulty save: the header is written by every call.
TextSaveAlwaysHeader(fl, f, append) ==
  IF ~append /\ fl.exists
  THEN [exc |-> "FileExistsError", file |-> fl]
  ELSE [exc |-> "",
        file |-> Write(Open(fl, IF append /\ fl.exists THEN "a" ELSE "w"),
                       resource(f, FALSE))]

\* The body shared by CSV.save and Markdown.save: mode is "a" if append else
\* "w", and with append on a file that does not exist it is "w" and append
\* is False.
TextSave(fl, f, append) ==
  IF ~append /\ fl.exists
  THEN [exc |-> "FileExistsError", file |-> fl]
  ELSE [exc |-> "",
        file |-> Write(Open(fl, IF append /\ fl.exists THEN "a" ELSE "w"),
                       resource(f, append /\ fl.exists))]

CSV_save(fl, f, append) == TextSave(fl, f, append)
Markdown_save(fl, f, append) == TextSave(fl, f, append)

\* json.load(f) gives a document for the text json.dumps wrote, alone in the
\* file; for any other text it raises JSONDecodeError.
IsJson(fl) == Len(fl.lines) = 1 /\ fl.lines[1].t = "json"

\* The document {"runs": [...]}
Document(runs) == <<Line("json", "JSON", runs)>>

\* JSON.save(file, append)
JSON_save(fl, f, append) ==
  IF ~append /\ fl.exists
  THEN [exc |-> "FileExistsError", file |-> fl]
  ELSE IF append /\ fl.exists
       THEN IF ~IsJson(fl)
            THEN [exc |-> "JSONDecodeError", file |-> fl]
            ELSE [exc |-> "",
                  file |-> Write(Open(fl, "w"),
                                 Document(fl.lines[1].rows \o f.row))]
       ELSE [exc |-> "", file |-> Write(Open(fl, "w"), Document(f.row))]

\* Plot.save(file): pass
Plot_save(fl, f) == [exc |-> "", file |-> fl]

\* formatted.save(file, append=append), by the class of the formatter
SaveOf(fl, f, append) ==
  CASE f.kind = "CSV" -> CSV_save(fl, f, append)
    [] f.kind = "Markdown" -> Markdown_save(fl, f, append)
    [] f.kind = "JSON" -> JSON_save(fl, f, append)
    [] f.kind = "Plot" -> Plot_save(fl, f)

\* The values given as stats: the Stats object, or a float
StatsArguments == {"Stats", "float"}

\* The style tokens: the four values, other strings, None and the members
StyleTokens ==
  {Str("csv"), Str("markdown"), Str("json"), Str("plot"),
   Str("CSV"), Str("hello"), NoneToken,
   Member("CSV"), Member("MARKDOWN"), Member("JSON"), Member("PLOT")}

\* The samples of the runs that are formatted: lists of 1.5
RunLists == UNION {[1..n -> {[k |-> "float", m |-> 3, e |-> -1]}] : n \in 0..MaxRunLen}
RunWarmups == {-1, 0}

ConstructRun ==
  /\ \E ts \in RunLists, w \in RunWarmups : StatsInit(ts, w)
  /\ StatsInitMetadata(UserFunction, "None", "None")
  /\ UNCHANGED <<fvars, dvars>>

StatsAsResult(arg, t, r) ==
  /\ cache' = r.c
  /\ formatted' = IF r.exc = "" THEN r.f ELSE formatted
  /\ last' = [NoCall EXCEPT !.op = "stats_as", !.arg = arg, !.style = t,
                            !.from = unit, !.raised = r.exc]

\* formatted = format.stats_as(stats, style)
StatsAs(arg, t) ==
  /\ arg = "Stats" => status = "live"
  /\ StatsAsResult(arg, t, stats_as(arg = "Stats", t, cache))
  /\ UNCHANGED <<status, given, raw_times, warmups, unit, metadata,
               conversions>>
  /\ UNCHANGED <<file, saved>>

CallStatsAs ==
  /\ \E arg \in StatsArguments, t \in StyleTokens : StatsAs(arg, t)
  /\ UNCHANGED dvars

\* The runs written since the file did not exist, after a save of f
Saved(fl, f, append) ==
  IF f.kind = "Plot"
  THEN saved
  ELSE (IF fl.exists THEN saved ELSE <<>>)
         \o <<[kind |-> f.kind, rows |-> f.row, append |-> append]>>

SaveResult(append, r) ==
  /\ r.exc = "" => Len(saved) < MaxSaves
  /\ file' = r.file
  /\ saved' = IF r.exc = "" THEN Saved(file, formatted, append) ELSE saved
  /\ last' = [NoCall EXCEPT !.op = "save", !.arg = formatted.kind,
                            !.append = append, !.raised = r.exc]

\* formatted.save(file, append=append)
Save(append) ==
  /\ formatted # NoFormatter
  /\ SaveResult(append, SaveOf(file, formatted, append))
  /\ UNCHANGED <<status, given, raw_times, warmups, unit, metadata, cache,
               conversions>>
  /\ UNCHANGED formatted

CallSave ==
  /\ \E append \in BOOLEAN : Save(append)
  /\ UNCHANGED dvars

NextFormat ==
  \/ ConstructRun
  \/ CallStatsAs
  \/ CallSave
  \/ to_milliseconds

SpecFormat == Init /\ [][NextFormat]_vars

(***************************************************************************)
(* bench: the sampling drivers benchit and single_shot                     *)
(***************************************************************************)
\* bench._wrap_function_if_callable(fn, args, kwargs): the lambda that calls
\* fn with the arguments if fn is callable and there are any, else fn
wrap_function_if_callable(fn, args, kwargs) ==
  IF fn.callable /\ (Truthy(args) \/ Truthy(kwargs)) THEN WrappedCall
  ELSE fn

\* The functions a driver is given: a decorator is applied to a function,
\* the functions of bench take a string of code as well
FunctionsOf(form) ==
  IF form = "decorators" THEN {UserFunction} ELSE {UserFunction, Snippet}

\* timer.repeat(n, 1): n times a sample of one run, for i in range(n)
TimerRepeat(n) == [1..n -> SampleValues]

\* len(range(n))
RangeLen(n) == IF n < 0 THEN 0 ELSE n

\* A faulty benchit: the warmup runs are not sampled.
benchit_without_warmups(op, form, r, w) ==
  /\ \E fn \in FunctionsOf(form), a \in ArgValues, k \in KwargValues :
       /\ \E ts \in TimerRepeat(r) : StatsInit(ts, w)
       /\ StatsInitMetadata(wrap_function_if_callable(fn, a, k), a, k)
       /\ timing' = [NoTiming EXCEPT !.op = op, !.form = form,
                                      !.repetitions = r, !.warmups = w,
                                      !.samples = RangeLen(r),
                                      !.runs = RangeLen(r), !.fn = fn,
                                      !.fn_args = a, !.fn_kwargs = k]
  /\ UNCHANGED fvars

\* The body of bench.benchit, called as op from the module bench or from a
\* wrapper of decorators, with a function fn and arguments for it:
\* fn = _wrap_function_if_callable(fn, fn_args, fn_kwargs),
\* times = timer.repeat(repetitions + warmups, 1), then
\* Stats(times, fn, warmups, fn_args=fn_args, fn_kwargs=fn_kwargs).  Each
\* sample is one run of fn.
benchit_body(op, form, r, w) ==
  /\ \E fn \in FunctionsOf(form), a \in ArgValues, k \in KwargValues :
       /\ \E ts \in TimerRepeat(r + w) : StatsInit(ts, w)
       /\ StatsInitMetadata(wrap_function_if_callable(fn, a, k), a, k)
       /\ timing' = [NoTiming EXCEPT !.op = op, !.form = form,
                                      !.repetitions = r, !.warmups = w,
                                      !.samples = RangeLen(r + w),
                                      !.runs = RangeLen(r + w), !.fn = fn,
                                      !.fn_args = a, !.fn_kwargs = k]
  /\ UNCHANGED fvars

\* bench.benchit(fn, repetitions, warmups=warmups)
bench_benchit(r, w) == benchit_body("benchit", "bench", r, w)

\* bench.single_shot(fn, warmups=warmups): benchit(fn, 1, warmups=warmups)
bench_single_shot(form, w) == benchit_body("single_shot", form, 1, w)

\* The wrapper of decorators.single_shot(warmups=warmups), called
decorators_single_shot(w) == bench_single_shot("decorators", w)

\* The default of warmups: of bench.single_shot, and of decorators.single_shot
BenchDefaultWarmups == 0
DecoratorsDefaultWarmups == 1

\* Arguments of the sampling drivers
RepetitionValues == 0..MaxRepetitions
BenchWarmups == -1..MaxWarmups

CallBenchit ==
  /\ \E r \in RepetitionValues, w \in BenchWarmups : bench_benchit(r, w)
  /\ UNCHANGED <<env, decorated, frame>>

CallSingleShot ==
  /\ \E w \in BenchWarmups \cup {BenchDefaultWarmups} :
       bench_single_shot("bench", w)
  /\ UNCHANGED <<env, decorated, frame>>

CallDecoratedSingleShot ==
  /\ \E w \in BenchWarmups \cup {DecoratorsDefaultWarmups} :
       decorators_single_shot(w)
  /\ UNCHANGED <<env, decorated, frame>>

NextBench ==
  \/ CallBenchit
  \/ CallSingleShot
  \/ CallDecoratedSingleShot
  \/ ReadProperty

SpecBench == Init /\ [][NextBench]_vars

(***************************************************************************)
(* bench.throughput, and the decorators                                    *)
(***************************************************************************)
\* The default of min_repetitions
DefaultMinRepetitions == 1

\* The samples after the warmups: those added to total_time
Measured(ts, w) == SubSeq(ts, RangeLen(w) + 1, Len(ts))

\* The while loop of bench.throughput ends after the samples ts: they are
\* more than the warmups, and neither total_time < 1.0 nor
\* repetitions < min_repetitions.
LoopEnds(ts, minr, w) ==
  /\ Len(ts) > RangeLen(w)
  /\ ~FLt(Float(PySum(Measured(ts, w))), One)
  /\ ~(Len(ts) - RangeLen(w) < minr)

\* The lists of samples the loop can take: it ends after the last one and
\* after none before
ThroughputSamples(minr, w) ==
  {ts \in Lists :
     /\ LoopEnds(ts, minr, w)
     /\ \A n \in 0..(Len(ts) - 1) : ~LoopEnds(SubSeq(ts, 1, n), minr, w)}

\* The body of bench.throughput, called from the module bench or from a
\* wrapper of decorators
throughput_body(form, minr, w) ==
  /\ \E fn \in FunctionsOf(form), a \in ArgValues, k \in KwargValues :
       \E ts \in ThroughputSamples(minr, w) :
         /\ StatsInit(ts, w)
         /\ StatsInitMetadata(wrap_function_if_callable(fn, a, k), a, k)
         /\ timing' = [NoTiming EXCEPT !.op = "throughput", !.form = form,
                                        !.repetitions = minr, !.warmups = w,
                                        !.samples = Len(ts), !.runs = Len(ts),
                                        !.fn = fn, !.fn_args = a,
                                        !.fn_kwargs = k]
  /\ UNCHANGED fvars

\* The decorators that call a sampling driver, and the others
Benchmarking == {"benchit", "single_shot", "throughput"}
Chaining == {"stats_as", "save", "validate"}

\* The style given to decorators.stats_as
DecoratedStyle == Str("csv")

\* The values of ENABLE_BENCHMARKING
EnvValues == {Unset, "0", "1"}

\* A faulty toggle: the wrappers look ENABLE_BENCHMARKING up when they are
\* called, so setting the variable to "0" turns the wrappers made before off.
SetEnvSwitchesWrappers(v) ==
  /\ env # v
  /\ env' = v
  /\ decorated' = [j \in DOMAIN decorated |->
                    [decorated[j] EXCEPT !.wrapped = @ /\ v # "0"]]
  /\ last' = [NoCall EXCEPT !.op = "setenv", !.arg = v]
  /\ UNCHANGED <<status, given, raw_times, warmups, unit, metadata, cache,
               conversions>>
  /\ UNCHANGED <<fvars, timing, frame>>

\* os.environ["ENABLE_BENCHMARKING"] = v, or del os.environ[...]
SetEnv(v) ==
  /\ frame.at = 0
  /\ env # v
  /\ env' = v
  /\ last' = [NoCall EXCEPT !.op = "setenv", !.arg = v]
  /\ UNCHANGED <<status, given, raw_times, warmups, unit, metadata, cache,
               conversions>>
  /\ UNCHANGED <<fvars, decorated, timing, frame>>

ChangeEnv == \E v \in EnvValues : SetEnv(v)

\* A faulty inner: the environment is not looked at.
DecorateIgnoresEnv(name, enabled, r) ==
  /\ frame.at = 0
  /\ Len(decorated) < MaxLayers
  /\ name \in Benchmarking => decorated = <<>>
  /\ decorated' = Append(decorated, [name |-> name, wrapped |-> enabled,
                                     repetitions |-> r])
  /\ last' = [NoCall EXCEPT !.op = "decorate", !.arg = name,
                            !.enabled = enabled]
  /\ UNCHANGED <<status, given, raw_times, warmups, unit, metadata, cache,
               conversions>>
  /\ UNCHANGED <<fvars, env, timing, frame>>

\* decorator(..., enabled=enabled)(function): inner returns the wrapper, or
\* the function itself if ENABLE_BENCHMARKING is "0" or enabled is false.
\* The benchmarking decorators are applied to the original function.
Decorate(name, enabled, r) ==
  /\ frame.at = 0
  /\ Len(decorated) < MaxLayers
  /\ name \in Benchmarking => decorated = <<>>
  /\ decorated' = Append(decorated,
                         [name |-> name,
                          wrapped |-> ~(env = "0" \/ ~enabled),
                          repetitions |-> r])
  /\ last' = [NoCall EXCEPT !.op = "decorate", !.arg = name,
                            !.enabled = enabled]
  /\ UNCHANGED <<status, given, raw_times, warmups, unit, metadata, cache,
               conversions>>
  /\ UNCHANGED <<fvars, env, timing, frame>>

ApplyDecorator ==
  \E name \in Benchmarking \cup Chaining, enabled \in BOOLEAN :
    \E r \in (IF name = "benchit" THEN 1..MaxRepetitions ELSE {1}) :
      Decorate(name, enabled, r)

\* The index of the first wrapper from i on, one more than the number of
\* decorators if there is none
NextWrapper(i) ==
  IF \E j \in i..Len(decorated) : decorated[j].wrapped
  THEN CHOOSE j \in i..Len(decorated) :
         /\ decorated[j].wrapped
         /\ \A n \in i..(j - 1) : ~decorated[n].wrapped
  ELSE Len(decorated) + 1

\* Where the call goes on after wrapper i: an exception ends it
After(i, exc) ==
  IF exc # "" THEN Len(decorated) + 1 ELSE NextWrapper(i + 1)

\* The sampling driver the wrapper of a benchmarking decorator calls
Driver(d) ==
  CASE d.name = "benchit" ->
         benchit_body("benchit", "decorators", d.repetitions,
                      DecoratorsDefaultWarmups)
    [] d.name = "single_shot" ->
         decorators_single_shot(DecoratorsDefaultWarmups)
    [] d.name = "throughput" ->
         throughput_body("decorators", DefaultMinRepetitions,
                         DecoratorsDefaultWarmups)

\* The decorated function is called and the innermost function runs: the
\* wrapper of a benchmarking decorator, which samples the original function
\* and returns the Stats, or the original function, which returns an int.
CallDecorated ==
  /\ frame.at = 0
  /\ decorated # <<>>
  /\ IF decorated[1].wrapped /\ decorated[1].name \in Benchmarking
     THEN /\ Driver(decorated[1])
          /\ frame' = [NoFrame EXCEPT
                         !.at = After(1, last'.raised),
                         !.value = IF last'.raised = "" THEN "Stats" ELSE "",
                         !.raised = last'.raised,
                         !.by = IF last'.raised = "" THEN "" ELSE "Stats",
                         !.runs = timing'.runs]
     ELSE /\ frame' = [NoFrame EXCEPT !.at = NextWrapper(1), !.value = "int",
                                      !.runs = 1]
          /\ timing' = NoTiming
          /\ last' = [NoCall EXCEPT !.op = "call"]
          /\ UNCHANGED <<status, given, raw_times, warmups, unit, metadata,
                         cache, conversions, fvars>>
  /\ UNCHANGED <<env, decorated>>

\* isinstance(result, dtypes.Stats), isinstance(result, FormattedStats)
IsStats(value) == value = "Stats"
IsFormattedStats(value) == value \in {"CSV", "Markdown", "JSON", "Plot"}

\* The wrapper raises TypeError: the result is not what it needs
RaiseTypeError(by) ==
  /\ frame' = [frame EXCEPT !.at = Len(decorated) + 1, !.value = "",
                            !.raised = "TypeError", !.by = by,
                            !.checks = @ + 1]
  /\ last' = [NoCall EXCEPT !.op = by, !.raised = "TypeError"]
  /\ UNCHANGED <<status, given, raw_times, warmups, unit, metadata, cache,
               conversions>>
  /\ UNCHANGED fvars

\* The wrapper of stats_as, on the result of the function it wraps
StatsAsWrapper ==
  IF ~IsStats(frame.value)
  THEN RaiseTypeError("@stats_as")
  ELSE /\ StatsAs("Stats", DecoratedStyle)
       /\ frame' = [frame EXCEPT
                      !.at = After(frame.at, last'.raised),
                      !.value = IF last'.raised = "" THEN formatted'.kind
                                ELSE "",
                      !.raised = last'.raised,
                      !.by = IF last'.raised = "" THEN "" ELSE "stats_as",
                      !.checks = @ + 1, !.formats = @ + 1]

\* The wrapper of save: formatted_stats.save(file)
SaveWrapper ==
  IF ~IsFormattedStats(frame.value)
  THEN RaiseTypeError("@save")
  ELSE /\ Save(TRUE)
       /\ frame' = [frame EXCEPT
                      !.at = After(frame.at, last'.raised),
                      !.value = IF last'.raised = "" THEN frame.value ELSE "",
                      !.raised = last'.raised,
                      !.by = IF last'.raised = "" THEN "" ELSE "save",
                      !.checks = @ + 1,
                      !.writes = IF file' # file THEN @ + 1 ELSE @]

\* The file given to decorators.validate, and the default of the parameter
\* file of Stats.validate: sys.stdout
DecoratedFile == "file"
ValidateDefaultFile == "stdout"

\* The wrapper of validate: stats.validate(**kwargs).  The file given to the
\* decorator is not among the arguments of the call (and cannot be given in
\* kwargs, where the name file is taken), so validate runs with its default.
ValidateWrapper ==
  IF ~IsStats(frame.value)
  THEN RaiseTypeError("@validate")
  ELSE /\ Validate(ValidateDefaultFile)
       /\ frame' = [frame EXCEPT
                      !.at = After(frame.at, last'.raised),
                      !.value = IF last'.raised = "" THEN frame.value ELSE "",
                      !.raised = last'.raised,
                      !.by = IF last'.raised = "" THEN "" ELSE "validate",
                      !.checks = @ + 1]
       /\ UNCHANGED fvars

\* The function a wrapper wraps has returned, and the wrapper goes on
RunWrapper ==
  /\ frame.at \in DOMAIN decorated
  /\ CASE decorated[frame.at].name = "stats_as" -> StatsAsWrapper
       [] decorated[frame.at].name = "save" -> SaveWrapper
       [] decorated[frame.at].name = "validate" -> ValidateWrapper
  /\ UNCHANGED <<env, decorated, timing>>

\* A formatter is made of the value of a function that is not decorated
FormatValueOf ==
  /\ decorated = <<>> /\ env = Unset
  /\ CallStatsAs

NextDecorators ==
  \/ ChangeEnv
  \/ ApplyDecorator
  \/ CallDecorated
  \/ RunWrapper
  \/ FormatValueOf

SpecDecorators == Init /\ [][NextDecorators]_vars

(***************************************************************************)
(* bench.throughput, one iteration of its while loop at a time             *)
(***************************************************************************)
\* The times timer.timeit(1) returns, in seconds: 0.1015625, 0.5 and 1.5
TimerTimes ==
  {[k |-> "float", m |-> 13, e |-> -7], [k |-> "float", m |-> 1, e |-> -1],
   [k |-> "float", m |-> 3, e |-> -1]}

\* The arguments min_repetitions and warmups
MinRepetitionValues == -1..MaxRepetitions

\* A faulty while test: the time floor is left out.
LoopTestWithoutFloor == timing.count < timing.repetitions

\* total_time < 1.0 or repetitions < min_repetitions
LoopTest ==
  FLt(timing.total_time, One) \/ timing.count < timing.repetitions

\* throughput(fn, min_repetitions, warmups=warmups) called: the locals are
\* set, the while test comes next
throughput_call(minr, w) ==
  /\ status = "none"
  /\ timing.pc = ""
  /\ \E fn \in FunctionsOf("bench"), a \in ArgValues, k \in KwargValues :
       timing' = [NoTiming EXCEPT !.op = "throughput", !.form = "bench",
                                  !.repetitions = minr, !.warmups = w,
                                  !.pc = "loop", !.fn = fn, !.fn_args = a,
                                  !.fn_kwargs = k]
  /\ UNCHANGED <<svars, fvars, env, decorated, frame>>

\* A faulty iteration: total_time = time.
throughput_sample_keeps_last(t) ==
  /\ timing.pc = "loop"
  /\ LoopTest
  /\ timing.samples < MaxSamples
  /\ timing' =
       IF timing.warmup_count < timing.warmups
       THEN [timing EXCEPT !.times = Append(@, t), !.samples = @ + 1,
                           !.runs = @ + 1, !.warmup_count = @ + 1]
       ELSE [timing EXCEPT !.times = Append(@, t), !.samples = @ + 1,
                           !.runs = @ + 1, !.total_time = t,
                           !.count = @ + 1]
  /\ UNCHANGED <<svars, fvars, env, decorated, frame>>

\* One iteration of the while loop, the timer returning t: the sample is
\* appended; a warmup is counted and nothing else, any other sample is added
\* to total_time and counted as a repetition
throughput_sample(t) ==
  /\ timing.pc = "loop"
  /\ LoopTest
  /\ timing.samples < MaxSamples
  /\ timing' =
       IF timing.warmup_count < timing.warmups
       THEN [timing EXCEPT !.times = Append(@, t), !.samples = @ + 1,
                           !.runs = @ + 1, !.warmup_count = @ + 1]
       ELSE [timing EXCEPT !.times = Append(@, t), !.samples = @ + 1,
                           !.runs = @ + 1, !.total_time = FAdd(@, t),
                           !.count = @ + 1]
  /\ UNCHANGED <<svars, fvars, env, decorated, frame>>

\* The while test is false: return Stats(times, fn, warmups)
throughput_return ==
  /\ timing.pc = "loop"
  /\ ~LoopTest
  /\ StatsInit(timing.times, timing.warmups)
  /\ StatsInitMetadata(wrap_function_if_callable(timing.fn, timing.fn_args,
                                                 timing.fn_kwargs),
                       timing.fn_args, timing.fn_kwargs)
  /\ timing' = [timing EXCEPT !.pc = "done"]
  /\ UNCHANGED <<fvars, env, decorated, frame>>

CallThroughput ==
  \E minr \in MinRepetitionValues, w \in BenchWarmups :
    throughput_call(minr, w)

TakeSample == \E t \in TimerTimes : throughput_sample(t)

\* The statistics read of the Stats returned
ReadRun ==
  /\ \E name \in {"repetitions", "total"} : Read(name)
  /\ UNCHANGED <<fvars, dvars>>

NextThroughput ==
  \/ CallThroughput
  \/ TakeSample
  \/ throughput_return
  \/ ReadRun

SpecThroughput == Init /\ [][NextThroughput]_vars

(***************************************************************************)
(* Properties                                                              *)
(***************************************************************************)
\* The result r of a getter is the value v, without an exception.
IsValue(r, v) == r.exc = "" /\ r.v = v

\* v is the statistic name computed from the current effective times, by
\* the getter run with nothing cached.
IsFresh(name, v) == IsValue(Fget(<<>>, name), v)

\* C1: cache coherence.  In every state reached by reads and conversions,
\* each cached statistic equals the value its getter computes from the
\* current effective times; right after a conversion that changed the unit
\* none of the 14 statistics is cached; and the value a read returned is the
\* one computed from the times in their current unit.
CacheCoherence ==
  status = "live" =>
    /\ DOMAIN cache \subseteq Properties
    /\ \A name \in DOMAIN cache : IsFresh(name, cache[name])
    /\ (last.op = "to" /\ last.from # last.arg) => DOMAIN cache = {}
    /\ (last.op = "get" /\ last.raised = "") => IsFresh(last.arg, last.ret)

\* A statistic read again after a conversion: it is cached with a value in
\* the new unit that differs from the value in seconds.
CacheCoherenceWitness ==
  /\ status = "live" /\ conversions = 1 /\ unit = "MS"
  /\ last.op = "get" /\ last.arg = "minimum" /\ last.ran = 1
  /\ "minimum" \in DOMAIN cache
  /\ cache["minimum"] # PyMin(Slice(given, warmups))

\* C2: lazy memoization.  A freshly constructed Stats has no statistic
\* cached; a read of a statistic that is not cached runs its getter and
\* stores the value it returns; a read of a cached statistic returns the
\* stored value, runs no getter and leaves the cache as it is.
LazyStep ==
  /\ (last'.op = "__init__" /\ status' = "live") => cache' = <<>>
  /\ (last'.op = "get" /\ last'.raised = "") =>
       IF last'.arg \in DOMAIN cache
       THEN /\ last'.ret = cache[last'.arg]
            /\ last'.ran = 0
            /\ cache' = cache
       ELSE /\ last'.ran >= 1
            /\ last'.arg \in DOMAIN cache'
            /\ cache'[last'.arg] = last'.ret

LazyMemoization == [][LazyStep]_vars

\* A second read of a statistic: served from the cache.
LazyMemoizationWitness ==
  /\ status = "live"
  /\ last.op = "get" /\ last.ran = 0 /\ last.raised = ""
  /\ last.arg \in DOMAIN cache /\ last.ret.m # 0

\* Nanoseconds per unit, from the table ns-us 1e3, ns-ms 1e6, ns-s 1e9,
\* s-m 60, s-h 3600, s-d 86400; and the factor a value in unit u is
\* multiplied by to give the value in unit x.
NsPer(u) ==
  CASE u = "NS" -> KOne
    [] u = "US" -> K1e3
    [] u = "MS" -> K1e6
    [] u = "S" -> K1e9
    [] u = "M" -> KMul(K60, K1e9)
    [] u = "H" -> KMul(KMul(K60, K60), K1e9)
    [] u = "D" -> KMul(KMul(K24, KMul(K60, K60)), K1e9)

TableFactor(u, x) == KMul(NsPer(u), KInv(NsPer(x)))

\* The exact factor the steps of a lambda multiply by.
RECURSIVE LambdaFactor(_)
LambdaFactor(steps) ==
  IF steps = <<>> THEN KOne
  ELSE KMul(IF Head(steps).op = "mul" THEN Head(steps).c
            ELSE KInv(Head(steps).c),
            LambdaFactor(Tail(steps)))

\* The step from raw times ts in unit u to raw times ts2 by the callable fn
\* is the conversion to unit x of every element.
ConvertsAll(fn, u, x, ts, ts2) ==
  /\ fn.callable
  /\ LambdaFactor(fn.steps) = TableFactor(u, x)
  /\ Len(ts2) = Len(ts)
  /\ \A i \in 1..Len(ts) : ts2[i] = Call(fn, ts[i])

\* C3: a to_X call on a Stats in unit U # X replaces every element of the
\* raw sample array, the warmup prefix included, by the element times the
\* table's factor for (U, X), in the float arithmetic of _conversion_fn, and
\* sets the unit to X.  The unit is seconds after construction, a read
\* leaves it alone, and after any to_X call it is X.
ConversionStep ==
  /\ (last'.op = "__init__" /\ status' = "live") => unit' = "S"
  /\ last'.op = "get" => (unit' = unit /\ raw_times' = raw_times)
  /\ last'.op = "to" => unit' = last'.arg
  /\ (last'.op = "to" /\ last'.arg # unit) =>
       ConvertsAll(conversion_fn(last'.arg, unit), unit, last'.arg,
                   raw_times, raw_times')

ConversionScalesAll == [][ConversionStep]_vars

\* A conversion of a Stats with a warmup run: the warmup sample changed.
ConversionScalesAllWitness ==
  /\ status = "live" /\ conversions = 1 /\ warmups >= 1
  /\ last.op = "to" /\ last.from = "S" /\ last.arg = "D" /\ unit = "D"
  /\ raw_times[1] # given[1]

\* C4: a to_X call on a Stats already in unit X leaves the raw times, the
\* unit and the cached statistics as they are.
NoOpStep ==
  (last'.op = "to" /\ last'.arg = unit) =>
    (raw_times' = raw_times /\ unit' = unit /\ cache' = cache)

ConversionNoOp == [][NoOpStep]_vars

\* A to_X call in unit X with statistics cached.
ConversionNoOpWitness ==
  /\ status = "live"
  /\ last.op = "to" /\ last.arg = last.from /\ unit = last.arg
  /\ conversions = 1 /\ DOMAIN cache # {}

\* A Stats that went from seconds to another unit and back to seconds: two
\* conversions changed the unit and the unit is seconds again.
RoundTripDone == status = "live" /\ conversions = 2 /\ unit = "S"

\* C5, as stated: to_X followed by to_seconds reproduces every raw time
\* exactly and leaves unit == seconds.
RoundTripExact == RoundTripDone => raw_times = given

\* The exponent of the leading bit of x # 0, plus one.
TopExp(x) == x.e + BitLen(Abs(x.m))

\* |y - x| <= |x| / 2^(Precision - 3): y is x up to the rounding of the at
\* most four operations of a round trip.  Numbers whose leading bits are
\* more than one place apart differ by more than |x| / 4.
Close(y, x) ==
  IF x.m = 0 \/ y.m = 0 THEN x.m = y.m
  ELSE /\ Abs(TopExp(y) - TopExp(x)) <= 1
       /\ 2^(Precision - 3)
            * Abs(Scaled(y, Min2(x.e, y.e)) - Scaled(x, Min2(x.e, y.e)))
          <= Abs(Scaled(x, Min2(x.e, y.e)))

\* C5, amended: to_X followed by to_seconds leaves unit == seconds and as
\* many raw times as before, each within a relative error of
\* 2^-(Precision - 3) of its value before (so 0.0 comes back as 0.0).
RoundTripClose ==
  RoundTripDone =>
    /\ Len(raw_times) = Len(given)
    /\ \A i \in 1..Len(given) :
         raw_times[i].k = "float" /\ Close(raw_times[i], given[i])

\* A round trip that came back with a value other than the one it began with.
RoundTripCloseWitness == RoundTripDone /\ raw_times # given

\* C6: Stats.__init__ with warmups >= len(times) raises ValueError and
\* leaves no Stats object; so it does for an empty list with warmups 0.
ConstructionFails ==
  (last.op = "__init__" /\ last.int >= Len(given)) =>
    /\ status = "raised"
    /\ last.raised = "ValueError"
    /\ raw_times = <<>> /\ unit = "" /\ cache = <<>>

\* The constructor called with an empty list and warmups 0.
ConstructionFailsWitness ==
  status = "raised" /\ given = <<>> /\ last.op = "__init__" /\ last.int = 0

\* C7, as stated: every Stats object has 0 <= warmups < len(raw_times), its
\* effective times are the raw times without the first warmups entries, and
\* they are never empty.
WarmupsInRange ==
  status = "live" =>
    /\ 0 <= warmups /\ warmups < Len(raw_times)
    /\ times = SubSeq(raw_times, warmups + 1, Len(raw_times))
    /\ times # <<>>

\* min <= median <= max of three results of reads
Ordered(mn, md, mx) ==
  /\ mn.exc = "" /\ md.exc = "" /\ mx.exc = ""
  /\ FLe(mn.v, md.v) /\ FLe(md.v, mx.v)

\* C8: for a Stats of samples T with 0 <= warmups < len(T), repetitions is
\* len(T) - warmups, total is sum(T[warmups:]) and
\* minimum <= median <= maximum.
StatisticsOfEffective ==
  (status = "live" /\ warmups >= 0) =>
    /\ IsValue(Get(cache, "repetitions"), PyInt(Len(raw_times) - warmups))
    /\ IsValue(Get(cache, "total"),
               PySum(SubSeq(raw_times, warmups + 1, Len(raw_times))))
    /\ Ordered(Get(cache, "minimum"), Get(cache, "median"),
               Get(cache, "maximum"))

\* total read on three samples of which the first, not zero, is a warmup.
StatisticsOfEffectiveWitness ==
  /\ status = "live" /\ warmups = 1 /\ Len(raw_times) = 3
  /\ raw_times[1].m # 0 /\ raw_times[3].m # 0
  /\ last.op = "get" /\ last.arg = "total" /\ last.ran = 1

\* C9: std is 0.0 whenever fewer than two effective samples remain after
\* the warmups are dropped, whatever the sample, the warmups and the unit:
\* a read of std gives 0.0, and gave 0.0 if it was the last call.
StdZeroBelowTwo ==
  (status = "live" /\ Len(times) < 2) =>
    /\ IsValue(Get(cache, "std"), Zero)
    /\ (last.op = "get" /\ last.arg = "std") =>
         IsValue([exc |-> last.raised, v |-> last.ret], Zero)

\* std read on one effective sample, not zero, after a warmup run and a
\* conversion.
StdZeroBelowTwoWitness ==
  /\ status = "live" /\ Len(times) = 1 /\ times[1].m # 0
  /\ warmups >= 1 /\ unit # "S"
  /\ last.op = "get" /\ last.arg = "std" /\ last.ret = Zero

\* throughput tp after reads t of total and r of repetitions
ThroughputIs(tp, t, r) ==
  /\ tp.exc = ""
  /\ tp.v = NaN <=> IsZero(t.v)
  /\ ~IsZero(t.v) => tp.v = FDiv(Float(r.v), t.v)

\* throughput_min tp after a read mn of minimum
ThroughputMinIs(tp, mn) ==
  /\ tp.exc # "ZeroDivisionError"
  /\ mn.exc = "" =>
       /\ tp.exc = ""
       /\ tp.v = NaN <=> IsZero(mn.v)
       /\ ~IsZero(mn.v) => tp.v = FDiv(One, mn.v)

\* C10: throughput is NaN exactly when total == 0 and else
\* repetitions / total; throughput_min is NaN exactly when minimum == 0 and
\* else 1 / minimum; neither read raises ZeroDivisionError.
ThroughputNaN ==
  status = "live" =>
    /\ ThroughputIs(Get(cache, "throughput"), Get(cache, "total"),
                    Get(cache, "repetitions"))
    /\ ThroughputMinIs(Get(cache, "throughput_min"), Get(cache, "minimum"))
    /\ last.raised # "ZeroDivisionError"

\* throughput read on samples that are all 0.0: NaN.
ThroughputNaNWitness ==
  /\ status = "live" /\ Len(times) >= 2
  /\ last.op = "get" /\ last.arg = "throughput" /\ last.ret = NaN
  /\ last.raised = ""

\* Two reads give the same value, without an exception.
SameValue(r1, r2) == r1.exc = "" /\ r2.exc = "" /\ r1.v = r2.v

\* C11: for non-empty effective times percentile(0.0) is the minimum,
\* percentile(1.0) the maximum and percentile(0.5) the median, for odd and
\* even sample counts; percentile_0th, percentile_50th and percentile_100th
\* read as minimum, median and maximum do.
PercentileEndPoints ==
  (status = "live" /\ times # <<>>) =>
    /\ IsValue(percentile(cache, Zero), PyMin(times))
    /\ IsValue(percentile(cache, One), PyMax(times))
    /\ IsValue(percentile(cache, Half), statistics_median(times))
    /\ SameValue(percentile_0th(cache), Get(cache, "minimum"))
    /\ SameValue(percentile_50th(cache), Get(cache, "median"))
    /\ SameValue(percentile_100th(cache), Get(cache, "maximum"))
    /\ (last.op = "_percentile" /\ last.p = Zero) =>
         SameValue([exc |-> last.raised, v |-> last.ret],
                   Get(cache, "minimum"))

\* _percentile(0.5) called on two different effective samples: the median,
\* which is neither of them.
PercentileEndPointsWitness ==
  /\ status = "live" /\ Len(times) = 2 /\ times[1] # times[2]
  /\ last.op = "_percentile" /\ last.p = Half /\ last.raised = ""
  /\ last.ret = statistics_median(times)
  /\ last.ret # times[1] /\ last.ret # times[2]

\* p is a real number with 0.0 <= p <= 1.0: a float or an int in the range.
InUnitInterval(p) ==
  p.k \in {"float", "int"} /\ FLe(Zero, Float(p)) /\ FLe(Float(p), One)

\* C12, as stated: _percentile(p) returns for every real number p with
\* 0.0 <= p <= 1.0 and raises ValueError for every other argument; a call
\* that raised left raw times, unit and cached statistics as they were.
PercentileStep ==
  last'.op = "_percentile" =>
    /\ IF InUnitInterval(last'.p) THEN last'.raised = ""
       ELSE last'.raised = "ValueError"
    /\ last'.raised # "" =>
         (raw_times' = raw_times /\ unit' = unit /\ cache' = cache)

PercentileDomain == [][PercentileStep]_vars

\* The linear-interpolation reference on the sorted times s at rank k, with
\* f = floor(k) and c = ceil(k) (indices from 0).
Reference(s, k, f, c) ==
  IF f = c THEN s[f + 1]
  ELSE FAdd(FMul(s[f + 1], FSub(Float(PyInt(c)), k)),
            FMul(s[c + 1], FSub(k, Float(PyInt(f)))))

\* The last call returned the reference value for n times, sorted as s, at
\* rank k, and the two indices lie in 0..n-1.
ReturnedReference(n, s, k) ==
  /\ Floor(k) \in 0..(n - 1) /\ Ceil(k) \in 0..(n - 1)
  /\ last.raised = ""
  /\ last.ret = Reference(s, k, Floor(k), Ceil(k))

\* C13, as stated: _percentile(p) for a float p in [0.0, 1.0] returns the
\* linear interpolation between the order statistics at floor(k) and
\* ceil(k), k = (n - 1) * p, of the n effective times, and both indices lie
\* in 0..n-1.
PercentileInterpolates ==
  (status = "live" /\ last.op = "_percentile" /\ last.p.k = "float"
     /\ InUnitInterval(last.p)) =>
    ReturnedReference(Len(times), sorted(times),
                      FMul(Float(PyInt(Len(times) - 1)), last.p))

\* The warnings that trigger for standard deviation sd, mean mn and least
\* time least, read in the current unit: "variability" iff there are two
\* or more effective times and sd * 100 / mn >= 10.0, "sub-millisecond" iff
\* the least time in milliseconds is < 1.0.
Ten == [k |-> "float", m |-> 5, e |-> 1]
Hundred == [k |-> "float", m |-> 25, e |-> 2]

Variable(sd, mn) ==
  /\ Len(times) >= 2 /\ ~IsZero(mn)
  /\ FLe(Ten, FDiv(FMul(sd, Hundred), mn))

InMilliseconds(x) ==
  IF unit = "MS" THEN x ELSE Call(conversion_fn("MS", unit), x)

Triggered(sd, mn, least) ==
  {w \in {"variability"} : Variable(sd, mn)}
    \cup {w \in {"sub-millisecond"} : FLt(InMilliseconds(least), One)}

\* C14, as stated: validate(file) returns, for every Stats, the list of
\* exactly the warnings that triggered, the same with and without a file,
\* and prints lines to the file only when that list is not empty.
ValidateReturnsWarnings ==
  (status = "live" /\ last.op = "validate") =>
    /\ last.raised = ""
    /\ last.warnings = Triggered(Fget(<<>>, "std").v, Fget(<<>>, "mean").v,
                                 Fget(<<>>, "minimum").v)
    /\ last.printed > 0 <=> (last.warnings # {} /\ last.arg # "None")

\* The classes of formatter that write a file
Writers == {"CSV", "Markdown", "JSON"}

\* C15: save(file, append=False) of a CSV, Markdown or JSON formatter on a
\* file that exists raises FileExistsError and leaves the content of the
\* file as it was.
SaveExistingStep ==
  (last'.op = "save" /\ last'.arg \in Writers /\ ~last'.append
     /\ file.exists) =>
    (last'.raised = "FileExistsError" /\ file' = file)

SaveExistingFails == [][SaveExistingStep]_vars

\* save(file, append=False) of a JSON formatter raised FileExistsError on a
\* file that holds two runs.
SaveExistingFailsWitness ==
  /\ last.op = "save" /\ last.arg = "JSON" /\ ~last.append
  /\ last.raised = "FileExistsError"
  /\ file.exists /\ Len(saved) = 2

\* Every run written since the file did not exist is of this class.
SavedBy(kind) == \A i \in DOMAIN saved : saved[i].kind = kind

\* The data rows of the runs written, in call order
SavedRows(kind) == [i \in DOMAIN saved |-> Line("row", kind, saved[i].rows)]
SavedRuns == [i \in DOMAIN saved |-> saved[i].rows[1]]

\* C16: after n >= 1 successful save(file, append=True) calls on a file that
\* did not exist, a CSV file holds one header line and the n rows in call
\* order, a Markdown file the header line, the separator line and the n
\* rows in call order, and a JSON file one document whose runs are the n
\* runs in call order.
AppendOrCreate ==
  (saved # <<>> /\ \A i \in DOMAIN saved : saved[i].append) =>
    /\ file.exists
    /\ SavedBy("CSV") =>
         file.lines = <<Line("header", "CSV", <<>>)>> \o SavedRows("CSV")
    /\ SavedBy("Markdown") =>
         file.lines = <<Line("header", "Markdown", <<>>),
                        Line("separator", "Markdown", <<>>)>>
                        \o SavedRows("Markdown")
    /\ SavedBy("JSON") => file.lines = <<Line("json", "JSON", SavedRuns)>>

\* Three runs were appended by Markdown formatters, the first in seconds
\* and the last in milliseconds.
AppendOrCreateWitness ==
  /\ Len(saved) = MaxSaves /\ SavedBy("Markdown")
  /\ \A i \in DOMAIN saved : saved[i].append
  /\ saved[1].rows[1].unit = "S" /\ saved[Len(saved)].rows[1].unit = "MS"
  /\ last.op = "save" /\ last.raised = ""

\* The class of formatter of a style token, "" for a token that is no style
FormatterOf(t) ==
  CASE t \in {Str("csv"), Member("CSV")} -> "CSV"
    [] t \in {Str("markdown"), Member("MARKDOWN")} -> "Markdown"
    [] t \in {Str("json"), Member("JSON")} -> "JSON"
    [] t \in {Str("plot"), Member("PLOT")} -> "Plot"
    [] OTHER -> ""

\* C17, as stated: stats_as(stats, style) on a Stats returns the CSV,
\* Markdown, JSON or Plot formatter for the token 'csv', 'markdown', 'json'
\* or 'plot', given as a string or as a member of Format, raises ValueError
\* for every other token, and never returns None.
StatsAsReturnsFormatter ==
  (last.op = "stats_as" /\ last.arg = "Stats") =>
    /\ IF FormatterOf(last.style) # ""
       THEN last.raised = "" /\ formatted.kind = FormatterOf(last.style)
       ELSE last.raised = "ValueError"
    /\ last.raised = "" => formatted # NoFormatter

\* C20: bench.benchit(fn, repetitions=r, warmups=w) with r >= 1 and w >= 0
\* takes r + w samples and returns a Stats with warmups w, r + w raw times
\* and repetitions r; single_shot, from bench and from decorators, each with
\* its default warmups (and with any warmups >= 0), returns a Stats with
\* repetitions 1.
BenchitSamples ==
  /\ (timing.op = "benchit" /\ timing.repetitions >= 1
        /\ timing.warmups >= 0) =>
       /\ status = "live"
       /\ timing.samples = timing.repetitions + timing.warmups
       /\ timing.runs = timing.samples
       /\ Len(given) = timing.samples
       /\ warmups = timing.warmups
       /\ Len(raw_times) = timing.repetitions + timing.warmups
       /\ IsValue(Get(cache, "repetitions"), PyInt(timing.repetitions))
       /\ (last.op = "get" /\ last.arg = "repetitions") =>
            last.ret = PyInt(timing.repetitions)
  /\ (timing.op = "single_shot" /\ timing.warmups >= 0) =>
       /\ status = "live"
       /\ IsValue(Get(cache, "repetitions"), PyInt(1))
       /\ (last.op = "get" /\ last.arg = "repetitions") =>
            last.ret = PyInt(1)

\* repetitions was read as 2 after benchit with two repetitions and one
\* warmup, with three different samples.
BenchitSamplesWitness ==
  /\ timing.op = "benchit" /\ timing.repetitions = 2 /\ timing.warmups = 1
  /\ status = "live" /\ Len(raw_times) = 3
  /\ raw_times[1] # raw_times[2] /\ raw_times[2] # raw_times[3]
  /\ last.op = "get" /\ last.arg = "repetitions" /\ last.ret = PyInt(2)

\* The three decorators of the chain save(stats_as(benchit(f))), all with
\* their wrappers
FullChain ==
  /\ Len(decorated) = 3
  /\ decorated[1].name = "benchit"
  /\ decorated[2].name = "stats_as"
  /\ decorated[3].name = "save"
  /\ \A j \in DOMAIN decorated : decorated[j].wrapped

\* C18: the wrapper of stats_as and of validate raises TypeError whenever
\* the function it wraps returned no Stats; the wrapper of save raises it
\* whenever that function returned no FormattedStats, and the file is then
\* as it was; a formatter made of a value that is no Stats raises it; and
\* a call of save(stats_as(benchit(f))), all enabled, raises nothing and
\* writes the CSV formatter to the file.
TypeCheckStep ==
  /\ (frame.at \in DOMAIN decorated /\ frame'.at # frame.at) =>
       /\ (decorated[frame.at].name \in {"stats_as", "validate"}
             /\ frame.value # "Stats") =>
            frame'.raised = "TypeError"
       /\ (decorated[frame.at].name = "save"
             /\ frame.value \notin {"CSV", "Markdown", "JSON", "Plot"}) =>
            (frame'.raised = "TypeError" /\ file' = file)
  /\ (last'.op = "stats_as" /\ last'.arg = "float"
        /\ FormatterOf(last'.style) # "") =>
       last'.raised = "TypeError"
  /\ (FullChain /\ frame'.at = Len(decorated) + 1 /\ frame'.at # frame.at) =>
       /\ frame'.raised = ""
       /\ frame'.value = "CSV"
       /\ file'.exists

DecoratorTypeChecks == [][TypeCheckStep]_vars

\* save was applied to a benchmarking decorator: the Stats was made and the
\* wrapper of save raised TypeError, with no file written.
DecoratorTypeChecksWitness ==
  /\ Len(decorated) = 2 /\ decorated[2].name = "save"
  /\ status = "live"
  /\ frame.raised = "TypeError" /\ frame.by = "@save"
  /\ ~file.exists

\* C19: a decorator applied with enabled=False, or while ENABLE_BENCHMARKING
\* is "0", gives back the function it was applied to; so a call of a
\* function whose decorators were all applied that way runs the original
\* function once and returns its value, with no sample taken, no isinstance
\* test, no formatter made and nothing written, whatever the environment
\* is at the time of the call.
DisabledStep ==
  /\ (last'.op = "decorate" /\ Len(decorated') = Len(decorated) + 1
        /\ (~last'.enabled \/ env = "0")) =>
       ~decorated'[Len(decorated')].wrapped
  /\ (frame.at = 0 /\ frame'.at # 0
        /\ \A j \in DOMAIN decorated : ~decorated[j].wrapped) =>
       /\ frame'.at = Len(decorated) + 1
       /\ frame'.value = "int" /\ frame'.raised = ""
       /\ frame'.runs = 1
       /\ frame'.checks = 0 /\ frame'.formats = 0 /\ frame'.writes = 0
       /\ timing'.samples = 0
       /\ status' = status /\ raw_times' = raw_times /\ cache' = cache
       /\ formatted' = formatted /\ file' = file

DisabledPassThrough == [][DisabledStep]_vars

\* The function under benchit, stats_as and save, none with its wrapper,
\* was called while ENABLE_BENCHMARKING is "1", and returned its int.
DisabledPassThroughWitness ==
  /\ Len(decorated) = 3
  /\ decorated[1].name = "benchit"
  /\ decorated[2].name = "stats_as"
  /\ decorated[3].name = "save"
  /\ \A j \in DOMAIN decorated : ~decorated[j].wrapped
  /\ env = "1"
  /\ frame.at = Len(decorated) + 1 /\ frame.value = "int" /\ frame.runs = 1

\* The samples ts of a call with warmups w meet both conditions of the loop:
\* the sum of those after the warmups is at least 1.0, and they are at least
\* minr.
BothMet(ts, minr, w) ==
  /\ ~FLt(Float(PySum(Measured(ts, w))), One)
  /\ Len(Measured(ts, w)) >= minr

\* C21, as stated: throughput stops at the first sample after which the sum
\* of the non-warmup samples is >= 1.0 and their number is >= min_repetitions.
\* The Stats returned has total >= 1.0, repetitions >= min_repetitions and
\* len(raw_times) == repetitions + warmups; without its last sample one of
\* the two conditions is false; the first warmups samples count toward
\* neither condition.
ThroughputStopsAtFirst ==
  timing.pc = "done" =>
    /\ status = "live"
    /\ raw_times = timing.times
    /\ ~FLt(Float(PySum(times)), One)
    /\ Len(times) >= timing.repetitions
    /\ Len(raw_times) = Len(times) + timing.warmups
    /\ BothMet(raw_times, timing.repetitions, timing.warmups)
    /\ ~BothMet(SubSeq(raw_times, 1, Len(raw_times) - 1),
                timing.repetitions, timing.warmups)
    /\ timing.total_time = Float(PySum(times))
    /\ timing.count = Len(times)
    /\ (last.op = "get" /\ last.arg = "total") =>
         ~FLt(Float(last.ret), One)
    /\ (last.op = "get" /\ last.arg = "repetitions") =>
         last.ret.m >= timing.repetitions

\* C28: throughput with warmups >= 0 takes at least warmups + 1 samples
\* before it returns, for every min_repetitions, zero and negative ones
\* included: the Stats is constructed without ValueError and its
\* repetitions are at least 1.
ThroughputNeverEmpty ==
  (timing.op = "throughput" /\ timing.warmups >= 0) =>
    /\ status # "raised"
    /\ timing.pc = "done" =>
         /\ status = "live"
         /\ timing.samples >= timing.warmups + 1
         /\ Len(raw_times) = timing.samples
         /\ warmups = timing.warmups
         /\ Len(times) >= 1
         /\ IsValue(Get(cache, "repetitions"), PyInt(Len(times)))
         /\ (last.op = "get" /\ last.arg = "repetitions") =>
              last.raised = "" /\ last.ret.m >= 1

\* throughput(fn, -1, warmups=1) has returned a Stats of two samples, one
\* of them the warmup.
ThroughputNeverEmptyWitness ==
  /\ timing.op = "throughput" /\ timing.pc = "done"
  /\ timing.repetitions = -1 /\ timing.warmups = 1
  /\ status = "live"
  /\ timing.samples = 2
  /\ Len(times) = 1

\* x + y without rounding, and the lists whose left-to-right float sum is
\* the sum of the numbers: no addition of it rounds
ExactAdd(x, y) == Canon(Scaled(x, AlignExp(x, y)) + Scaled(y, AlignExp(x, y)),
                        AlignExp(x, y))

RECURSIVE SumsExactly(_)
SumsExactly(ts) ==
  \/ Len(ts) <= 1
  \/ /\ SumsExactly(SubSeq(ts, 1, Len(ts) - 1))
     /\ FAdd(Float(PySum(SubSeq(ts, 1, Len(ts) - 1))), ts[Len(ts)])
          = ExactAdd(Float(PySum(SubSeq(ts, 1, Len(ts) - 1))), ts[Len(ts)])

\* ceil(1.0 / d) for a float d > 0, as a number
CeilInverse(d) ==
  IF d.e >= 0 THEN 1 ELSE (2^(0 - d.e) + d.m - 1) \div d.m

Max2(a, b) == IF a >= b THEN a ELSE b

\* The call of throughput has taken samples, each of them more than 0.0
PositiveSamples ==
  /\ timing.op = "throughput"
  /\ timing.times # <<>>
  /\ FLt(Zero, PyMin(timing.times))

\* C29, as stated: throughput terminates.  If every sample is at least
\* d > 0, the loop ends after at most
\* warmups + max(min_repetitions, ceil(1.0 / d)) samples and a Stats is
\* returned.
ThroughputEndsWithin ==
  (PositiveSamples /\ timing.pc = "done") =>
    /\ status = "live"
    /\ timing.samples <=
         timing.warmups
           + Max2(timing.repetitions, CeilInverse(PyMin(timing.times)))

\* C29, amended: if every sample is at least d > 0 and no addition to
\* total_time rounds, the loop has taken at most
\* max(warmups, 0) + max(min_repetitions, ceil(1.0 / d)) samples, at the
\* while test and when it ends; it ends only through its test, with
\* total_time >= 1.0 and repetitions >= min_repetitions, and a Stats is
\* returned.
ThroughputEndsWithinExact ==
  /\ (PositiveSamples
        /\ SumsExactly(Measured(timing.times, timing.warmups))) =>
       timing.samples <=
         RangeLen(timing.warmups)
           + Max2(timing.repetitions, CeilInverse(PyMin(timing.times)))
  /\ (timing.op = "throughput" /\ timing.pc = "done") =>
       /\ status = "live"
       /\ raw_times = timing.times
       /\ ~FLt(timing.total_time, One)
       /\ timing.count >= timing.repetitions

\* throughput(fn, 1, warmups=1) has returned after three samples of 0.5:
\* one warmup and ceil(1.0 / 0.5) more.
ThroughputEndsWithinExactWitness ==
  /\ timing.op = "throughput" /\ timing.pc = "done"
  /\ timing.warmups = 1 /\ timing.repetitions = 1
  /\ Len(timing.times) = 3
  /\ \A i \in 1..3 : timing.times[i] = [k |-> "float", m |-> 1, e |-> -1]
  /\ SumsExactly(Measured(timing.times, timing.warmups))
  /\ timing.samples = 1 + CeilInverse(PyMin(timing.times))
  /\ status = "live"

\* The exact factor of the lambda _conversion_fn returns for a Stats in unit
\* a converted to unit b
CodeFactor(a, b) == LambdaFactor(conversion_fn(b, a).steps)

\* The raw times a single conversion from seconds to unit u makes of ts
Direct(u, ts) == IF u = "S" THEN ts ELSE Map(conversion_fn(u, "S"), ts)

\* A Stats whose unit was changed by to_* calls, from seconds on
Converted == status = "live" /\ conversions >= 1

\* The factors of the 42 lambdas are the table's and compose.  They are
\* constants of the code: they are compared in the state before any call.
FactorsCompose ==
  status = "none" =>
    \A a \in TimeUnit : \A b \in TimeUnit \ {a} :
      /\ CodeFactor(a, b) = TableFactor(a, b)
      /\ KMul(CodeFactor(a, b), CodeFactor(b, a)) = KOne
      /\ \A c \in TimeUnit \ {a, b} :
           KMul(CodeFactor(a, b), CodeFactor(b, c)) = CodeFactor(a, c)

\* C22, as stated: after any sequence of to_* calls on a Stats that began in
\* seconds, every raw time is its original value times the single factor for
\* (seconds, current unit): the value one conversion from seconds gives.
PathIndependent == Converted => raw_times = Direct(unit, given)

\* C22, amended: the factors of the lambdas compose exactly, as numbers:
\* factor(A,B) * factor(B,C) == factor(A,C) and factor(A,B) * factor(B,A) == 1
\* for all units of the seven, and each is the table's factor.  After a
\* sequence of to_* calls every raw time is the value one conversion from
\* seconds gives up to floating-point rounding, within a relative error of
\* 2^-(Precision - 3), and 0.0 stays 0.0.
PathClose ==
  /\ FactorsCompose
  /\ Converted =>
       /\ Len(raw_times) = Len(given)
       /\ \A i \in 1..Len(given) :
            /\ raw_times[i].k = "float"
            /\ Close(raw_times[i], Direct(unit, given)[i])

\* A Stats converted from seconds to one unit and from there to another,
\* with a raw time that is not the value the single conversion gives.
PathCloseWitness ==
  /\ status = "live" /\ conversions = 2 /\ unit # "S"
  /\ raw_times # Direct(unit, given)

\* C23, as stated: validate converts the minimum to milliseconds from the
\* current unit of the Stats, whatever it is, milliseconds included, and
\* warns exactly when the converted minimum is below 1.0; the call leaves
\* the unit and the raw times as they are.
ValidateStep ==
  (status = "live" /\ last'.op = "validate" /\ times # <<>>) =>
    /\ last'.raised = ""
    /\ "sub-millisecond" \in last'.warnings
         <=> FLt(InMilliseconds(Fget(<<>>, "minimum").v), One)
    /\ unit' = unit /\ raw_times' = raw_times

ValidateConvertsMinimum == [][ValidateStep]_vars

\* C24, as stated: the wrapper of validate, enabled and given a Stats by the
\* function it wraps, runs Stats.validate with the file given to the
\* decorator and then returns the Stats it received.
ValidateWrapperStep ==
  (frame.at \in DOMAIN decorated /\ frame'.at # frame.at
     /\ decorated[frame.at].name = "validate" /\ IsStats(frame.value)) =>
    /\ last'.op = "validate"
    /\ last'.arg = DecoratedFile
    /\ frame'.raised = ""
    /\ frame'.value = frame.value
    /\ raw_times' = raw_times /\ unit' = unit

ValidateDecoratorUsesSink == [][ValidateWrapperStep]_vars

\* C25, as stated: the Stats a sampling driver returns for a callable fn
\* records function_name equal to fn's own name and function_args and
\* function_kwargs equal to the arguments supplied, with and without
\* positional or keyword arguments.
RecordsFunction ==
  (timing.op # "" /\ timing.fn.callable /\ status = "live") =>
    /\ metadata.name = timing.fn.name
    /\ metadata.args = timing.fn_args
    /\ metadata.kwargs = timing.fn_kwargs

\* C26: a to_* call leaves warmups, the number of raw samples, repetitions
\* and all metadata (function, name, file, line, setup, timestamp, args,
\* kwargs) as they were, and does not modify the list object the caller
\* passed to the constructor; only the time values, the unit and the
\* statistic cache may change.
ConversionFrameStep ==
  last'.op = "to" =>
    /\ status' = status
    /\ warmups' = warmups
    /\ Len(raw_times') = Len(raw_times)
    /\ repetitions(cache').v = repetitions(cache).v
    /\ metadata' = metadata
    /\ given' = given

ConversionFrame == [][ConversionFrameStep]_vars

\* A conversion that changed the stored times of a Stats with a warmup run
\* made for a callable, while the list the caller passed holds other values.
ConversionFrameWitness ==
  /\ status = "live" /\ conversions = 1 /\ warmups >= 1
  /\ last.op = "to" /\ last.arg # last.from /\ unit = last.arg
  /\ raw_times # given /\ Len(raw_times) = Len(given)
  /\ metadata.name = UserFunction.name

\* The seven statistics of the percentile family, as reads give them
Family ==
  <<Get(cache, "minimum"), Get(cache, "percentile_5th"),
    Get(cache, "percentile_25th"), Get(cache, "median"),
    Get(cache, "percentile_75th"), Get(cache, "percentile_95th"),
    Get(cache, "maximum")>>

\* C27, as stated: for a Stats with effective times, in every unit,
\* minimum <= percentile_5th <= percentile_25th <= median <=
\* percentile_75th <= percentile_95th <= maximum.
PercentileOrder ==
  (status = "live" /\ times # <<>>) =>
    /\ \A i \in 1..7 : Family[i].exc = ""
    /\ \A i \in 1..6 : FLe(Family[i].v, Family[i + 1].v)

\* x <= y, or x exceeds y by no more than rounding
LeClose(x, y) == FLe(x, y) \/ Close(x, y)

\* The order of a family fam of seven results of reads
OrderedUpToRounding(fam) ==
  /\ \A i \in 1..7 : fam[i].exc = ""
  /\ FLe(fam[1].v, fam[4].v) /\ FLe(fam[4].v, fam[7].v)
  /\ \A i \in 1..6 : LeClose(fam[i].v, fam[i + 1].v)

\* C27, amended: the seven statistics exist, minimum <= median <= maximum
\* holds exactly, and each statistic of the family is at most the next one
\* up to the rounding of the interpolation.
PercentileOrderClose ==
  (status = "live" /\ times # <<>>) =>
    OrderedUpToRounding(Family)

\* A converted Stats of three different effective times whose 5th percentile
\* lies strictly between minimum and median.
PercentileOrderCloseWitness ==
  /\ status = "live" /\ conversions >= 1 /\ Len(times) = 3
  /\ Family[1].exc = "" /\ Family[2].exc = "" /\ Family[4].exc = ""
  /\ ~FLe(Family[2].v, Family[1].v)
  /\ ~FLe(Family[4].v, Family[2].v)

\* C30: whether a decorator wraps is decided when it is applied, from
\* enabled and the value of ENABLE_BENCHMARKING at that moment; no later
\* step, setting or clearing the variable included, changes the decision,
\* and a call of the decorated function samples it exactly if the
\* benchmarking decorator was applied as a wrapper, whatever the variable
\* is at the time of the call.
DecidedOnceStep ==
  /\ last'.op = "decorate" =>
       /\ Len(decorated') = Len(decorated) + 1
       /\ SubSeq(decorated', 1, Len(decorated)) = decorated
       /\ decorated'[Len(decorated')].wrapped
            = (last'.enabled /\ env # "0")
  /\ last'.op # "decorate" => decorated' = decorated
  /\ (frame.at = 0 /\ frame'.at # 0) =>
       ((timing'.op # "")
          <=> (decorated[1].wrapped /\ decorated[1].name \in Benchmarking))

DecidedAtDecoration == [][DecidedOnceStep]_vars

\* benchit was applied as a wrapper, ENABLE_BENCHMARKING was set to "0"
\* afterwards, and the call that followed sampled the function.
DecidedAtDecorationWitness ==
  /\ Len(decorated) = 1 /\ decorated[1].name = "benchit"
  /\ decorated[1].wrapped
  /\ env = "0" /\ last.op \notin {"setenv", "decorate"}
  /\ frame.at = 2 /\ frame.value = "Stats"
  /\ timing.op # "" /\ timing.samples > 0

====
